---- MODULE Spec2Model ----
(***************************************************************************)
(* Model of the GPU memory manager of Tuvok / ImageVis3D:                  *)
(*   - the dataset registry of GPUMemMan (LoadDataset / FreeDataset),      *)
(*   - the volume brick cache entries (GLVolumeListElem) with their        *)
(*     best-match search, Access and Replace,                              *)
(*   - the creation of a brick texture (CreateTexture) and the padding of  *)
(*     a brick to powers of two (PadData).                                 *)
(* Each group of operations has its own specification; the variables of    *)
(* the other groups stay at their initial value there.                     *)
(***************************************************************************)
EXTENDS Integers, Sequences, FiniteSets, TLC

(***************************************************************************)
(* Bounds and input sets                                                   *)
(***************************************************************************)
\* number of heap addresses a VolumeDataset object can be allocated at
MaxDatasets == 2
\* longest user list of a dataset explored
MaxUsers == 3

\* number of volume cache entries the manager holds
MaxEntries == 2
\* largest user count of a cache entry explored
MaxBrickUsers == 1
\* longest entry list a best-match scan is run over from a drawn list
MaxScanLen == 3
\* most requests made for one brick before it is released
MaxLease == 3
\* largest x size of a brick handed to PadData
MaxSizeX == 5
\* most calls made on one cache entry, its constructor included
MaxCalls == 2
\* number of GLTexture2D objects created from files
MaxTextures == 3
\* most loads that return one simple texture
MaxTexUsers == 3
\* most hooks attached to one registered function
MaxHooks == 3
\* most transfer functions of one kind the renderers ask for
MaxTrans == 2
\* number of debug outputs the callers of the controller own
MaxDebugOuts == 2
\* most ConsoleOut objects RemoveDebugOut creates
MaxConsoles == 2
\* most calls of setDefaults and cexec made on one LuaScripting
MaxLuaCalls == 4

\* the null pointer
NULL == 0
\* addresses of VolumeDataset objects
DatasetIds == 1..MaxDatasets
\* renderer identities (AbstrRenderer*)
Requesters == {"r1", "r2"}
\* file names passed to LoadDataset
Files == {"a.uvf", "b.uvf"}
\* content of a heap cell that holds no live object
NoFile == "<freed>"

VARIABLES
  m_vpVolumeDatasets, \* GPUMemMan: sequence of VolDataListElem
  heap,               \* address -> Filename() of the live VolumeDataset, or NoFile
  crashed,            \* the process was terminated by undefined behaviour
  lastCall,           \* the last registry call, its arguments and its result
  pending,            \* ghost: address -> requesters that loaded this instance
                      \*        and have not called FreeDataset for it since
  once,               \* ghost: address -> no requester loaded this instance
                      \*        while it was pending for it
  volumeList,         \* the manager's sequence of GLVolumeListElem
  lastOp,             \* the last brick cache operation and its result
  lease,              \* ghost: brick requests and releases made for one brick
  dataset,            \* what the Dataset of the requested brick reports
  brick,              \* the arguments of a PadData call
  vData,              \* the raw bytes of the brick, as fetched
  texOp,              \* the last CreateTexture / PadData call and its result
  elem,               \* one GLVolumeListElem with its staging buffer and texture
  vUploadHub,         \* the upload hub the manager passes to the entry
  upOp,               \* the last call made on elem and what it read and wrote
  m_vpSimpleTextures, \* GPUMemMan: sequence of SimpleTextureListElem
  simpleOp,           \* the last simple-texture call, and ghost call counts
  lua,                \* one call of a registered function through LuaCallback
  ren,                \* the renderers of the MasterController and what
                      \* the manager holds for them
  dbg                 \* the debug output of the MasterController

regVars == <<m_vpVolumeDatasets, heap, crashed, lastCall, pending, once>>

cacheVars == <<volumeList, lastOp>>

texVars == <<lease, dataset, brick, vData, texOp>>

upVars == <<elem, vUploadHub, upOp>>

simpleVars == <<m_vpSimpleTextures, simpleOp>>

ctlVars == <<ren, dbg>>

extVars == <<elem, vUploadHub, upOp, m_vpSimpleTextures, simpleOp, lua,
             ren, dbg>>

vars == <<m_vpVolumeDatasets, heap, crashed, lastCall, pending, once,
          volumeList, lastOp, lease, dataset, brick, vData, texOp,
          elem, vUploadHub, upOp, m_vpSimpleTextures, simpleOp, lua,
          ren, dbg>>

(***************************************************************************)
(* Dataset registry: GPUMemMan::LoadDataset / GPUMemMan::FreeDataset       *)
(***************************************************************************)
\* VolDataListElem(dataset, requester): one dataset and its first user
VolDataListElem(pVolumeDataset, requester) ==
  [pVolumeDataset |-> pVolumeDataset, qpUser |-> <<requester>>]

\* s without its element at position n (std::vector::erase)
Erase(s, n) == SubSeq(s, 1, n - 1) \o SubSeq(s, n + 1, Len(s))

\* a search for the file name that starts behind the first registry entry
EntriesWithFilenameSkipFirst(list, hp, strFilename) ==
  {i \in 1..Len(list) : i > 1 /\ hp[list[i].pVolumeDataset] = strFilename}

\* indices of the registry entries whose dataset has this file name
\* (i->pVolumeDataset->Filename() == strFilename)
EntriesWithFilename(list, hp, strFilename) ==
  {i \in 1..Len(list) : hp[list[i].pVolumeDataset] = strFilename}

\* a registration that does not look at IsLoaded()
RegisterNewUnchecked(list, requester, bIsLoaded, addr) ==
  Append(list, VolDataListElem(addr, requester))

\* the registry after the construction of a new VolumeDataset at addr:
\* the object is registered only if it IsLoaded()
RegisterNew(list, requester, bIsLoaded, addr) ==
  IF bIsLoaded THEN Append(list, VolDataListElem(addr, requester)) ELSE list

Min(S) == CHOOSE x \in S : \A y \in S : x <= y

NoCall == [op |-> "none", file |-> "", req |-> "", ds |-> NULL,
           ret |-> NULL, msg |-> "", pre |-> <<>>]

\* the dataset LoadDataset returns, NULL if the file cannot be opened
LoadDatasetRet(list, hp, strFilename, bIsLoaded, addr) ==
  LET found == EntriesWithFilename(list, hp, strFilename) IN
  IF found # {} THEN list[Min(found)].pVolumeDataset
  ELSE IF bIsLoaded THEN addr ELSE NULL

\* bIsLoaded: dataset->IsLoaded() of the object constructed from the file,
\* addr: the address operator new returns for it
LoadDataset(strFilename, requester, bIsLoaded, addr) ==
  /\ ~crashed
  /\ LET found == EntriesWithFilename(m_vpVolumeDatasets, heap, strFilename) IN
     IF found # {}
     THEN \* "Reusing": the first entry with this file name
          LET i == Min(found) IN
          /\ Len(m_vpVolumeDatasets[i].qpUser) < MaxUsers
          /\ m_vpVolumeDatasets' =
               [m_vpVolumeDatasets EXCEPT ![i].qpUser = Append(@, requester)]
          /\ heap' = heap
     ELSE \* "Loading": new VolumeDataset at a free address; an object
          \* that could not be opened is neither registered nor deleted
          \* (the leaked object is not tracked by the heap of the model)
          /\ heap[addr] = NoFile
          /\ m_vpVolumeDatasets' =
               RegisterNew(m_vpVolumeDatasets, requester, bIsLoaded, addr)
          /\ heap' = IF bIsLoaded THEN [heap EXCEPT ![addr] = strFilename]
                     ELSE heap
  /\ UNCHANGED crashed

\* positions of the user list that the inner loop of FreeDataset compares
\* with the requester: the loop body ends in an unconditional break, so
\* only the first position is ever looked at
UsersExamined(qpUser) == IF Len(qpUser) = 0 THEN {} ELSE {1}

\* position at which the inner loop finds the requester, 0 if it does not
FindUser(qpUser, requester) ==
  LET hit == {j \in UsersExamined(qpUser) : qpUser[j] = requester} IN
  IF hit = {} THEN 0 ELSE Min(hit)

\* registry entries of this dataset in which the inner loop finds the requester
FreeCandidates(list, pVolumeDataset, requester) ==
  {i \in 1..Len(list) : /\ list[i].pVolumeDataset = pVolumeDataset
                        /\ FindUser(list[i].qpUser, requester) # 0}

\* the message FreeDataset reports
FreeDatasetMsg(list, pVolumeDataset, requester) ==
  LET cand == FreeCandidates(list, pVolumeDataset, requester) IN
  IF cand = {} THEN "Warning"
  ELSE IF Len(list[Min(cand)].qpUser) = 1 THEN "Released" ELSE "Decreased"

FreeDataset(pVolumeDataset, requester) ==
  /\ ~crashed
  /\ LET cand == FreeCandidates(m_vpVolumeDatasets, pVolumeDataset, requester) IN
     IF cand # {}
     THEN LET i == Min(cand)
              j == FindUser(m_vpVolumeDatasets[i].qpUser, requester)
              rest == Erase(m_vpVolumeDatasets[i].qpUser, j) IN
          /\ IF Len(rest) = 0
             THEN \* "Released Dataset": delete the object, erase the entry
                  /\ m_vpVolumeDatasets' = Erase(m_vpVolumeDatasets, i)
                  /\ heap' = [heap EXCEPT ![pVolumeDataset] = NoFile]
             ELSE \* "Decreased access count"
                  /\ m_vpVolumeDatasets' =
                       [m_vpVolumeDatasets EXCEPT ![i].qpUser = rest]
                  /\ heap' = heap
          /\ UNCHANGED crashed
     ELSE \* Warning(..., pVolumeDataset->Filename().c_str()): the pointer is
          \* dereferenced; on a null or deleted object this is undefined
          \* behaviour, which either terminates the process or goes unnoticed
          /\ UNCHANGED <<m_vpVolumeDatasets, heap>>
          /\ IF pVolumeDataset = NULL \/ heap[pVolumeDataset] = NoFile
             THEN crashed' \in BOOLEAN
             ELSE crashed' = crashed

RegInit ==
  /\ m_vpVolumeDatasets = <<>>
  /\ heap = [a \in DatasetIds |-> NoFile]
  /\ crashed = FALSE
  /\ lastCall = NoCall
  /\ pending = [a \in DatasetIds |-> {}]
  /\ once = [a \in DatasetIds |-> TRUE]

NoOp == [op |-> "none", idx |-> 0, ret |-> FALSE, req |-> <<>>, was |-> <<>>]

CacheIdle ==
  /\ volumeList = <<>>
  /\ lastOp = NoOp

NoLease == [nAccess |-> 0, nFree |-> 0]

NoTex == [op |-> "none"]

\* no brick is being created or padded
TexIdle ==
  /\ lease = NoLease
  /\ dataset = <<>>
  /\ brick = <<>>
  /\ vData = <<>>
  /\ texOp = NoTex

NoUp == [op |-> "none", n |-> 0]

\* no entry is being built or refilled
UpIdle ==
  /\ elem = <<>>
  /\ vUploadHub = <<>>
  /\ upOp = NoUp

NoSimple ==
  [op |-> "none", file |-> "", tex |-> 0, ret |-> 0, msg |-> "", pre |-> <<>>,
   nLoad |-> <<>>, nFree |-> <<>>, deleted |-> {}]

\* no simple texture is loaded
SimpleIdle ==
  /\ m_vpSimpleTextures = <<>>
  /\ simpleOp = NoSimple

\* no registered function is being called
LuaIdle == lua = <<>>

\* no renderer exists and no debug output is followed
CtlIdle == ren = <<>> /\ dbg = <<>>

ExtIdle == UpIdle /\ SimpleIdle /\ LuaIdle /\ CtlIdle

(***************************************************************************)
(* Spec: the registry under arbitrary calls; lastCall records each call    *)
(***************************************************************************)
CallLoadDataset(strFilename, requester, bIsLoaded, addr) ==
  /\ LoadDataset(strFilename, requester, bIsLoaded, addr)
  /\ lastCall' = [op |-> "LoadDataset", file |-> strFilename,
                  req |-> requester, ds |-> NULL,
                  ret |-> LoadDatasetRet(m_vpVolumeDatasets, heap,
                                         strFilename, bIsLoaded, addr),
                  msg |-> "", pre |-> m_vpVolumeDatasets]
  /\ UNCHANGED <<pending, once, cacheVars, texVars, extVars>>

CallFreeDataset(pVolumeDataset, requester) ==
  /\ FreeDataset(pVolumeDataset, requester)
  /\ lastCall' = [op |-> "FreeDataset", file |-> "",
                  req |-> requester, ds |-> pVolumeDataset, ret |-> NULL,
                  msg |-> FreeDatasetMsg(m_vpVolumeDatasets,
                                         pVolumeDataset, requester),
                  pre |-> m_vpVolumeDatasets]
  /\ UNCHANGED <<pending, once, cacheVars, texVars, extVars>>

Init == RegInit /\ CacheIdle /\ TexIdle /\ ExtIdle

Next ==
  \/ \E f \in Files, r \in Requesters, ok \in BOOLEAN, a \in DatasetIds :
       CallLoadDataset(f, r, ok, a)
  \/ \E p \in DatasetIds \cup {NULL}, r \in Requesters : CallFreeDataset(p, r)

Spec == Init /\ [][Next]_vars

(***************************************************************************)
(* SpecLife: the same calls; the ghosts follow who holds each dataset      *)
(***************************************************************************)
LifeLoadDataset(strFilename, requester, bIsLoaded, addr) ==
  /\ LoadDataset(strFilename, requester, bIsLoaded, addr)
  /\ LET p == LoadDatasetRet(m_vpVolumeDatasets, heap,
                             strFilename, bIsLoaded, addr) IN
     IF p = NULL THEN UNCHANGED <<pending, once>>
     ELSE IF heap[p] = NoFile
     THEN /\ pending' = [pending EXCEPT ![p] = {requester}]
          /\ once' = [once EXCEPT ![p] = TRUE]
     ELSE /\ pending' = [pending EXCEPT ![p] = @ \cup {requester}]
          /\ once' = [once EXCEPT ![p] = @ /\ requester \notin pending[p]]
  /\ UNCHANGED <<lastCall, cacheVars, texVars, extVars>>

LifeFreeDataset(pVolumeDataset, requester) ==
  /\ FreeDataset(pVolumeDataset, requester)
  /\ pending' = [pending EXCEPT ![pVolumeDataset] = @ \ {requester}]
  /\ UNCHANGED <<lastCall, once, cacheVars, texVars, extVars>>

LifeNext ==
  \/ \E f \in Files, r \in Requesters, ok \in BOOLEAN, a \in DatasetIds :
       LifeLoadDataset(f, r, ok, a)
  \/ \E p \in DatasetIds, r \in Requesters : LifeFreeDataset(p, r)

SpecLife == Init /\ [][LifeNext]_vars


(***************************************************************************)
(* Renderers: MasterController::RequestNewVolumerenderer and               *)
(* ReleaseVolumerenderer, AbstrRenderer::LoadDataset and ~AbstrRenderer,   *)
(* GPUMemMan::GetEmpty1DTrans and GetEmpty2DTrans                          *)
(***************************************************************************)
\* GetInfo()->GetBitwith() of the dataset of a file
Bitwith(strFilename) == IF strFilename = "a.uvf" THEN 8 ELSE 16

\* 1 << n
Shl1(n) == 2 ^ n

\* Trans1DListElem / Trans2DListElem: the owner and the size of the transfer
\* function (<<x>> or <<x, y>>); the function and its texture are new objects
TransListElem(iSize, requester) == [iSize |-> iSize, requester |-> requester]

\* GetEmpty1DTrans: a new transfer function and texture, appended to the list
GetEmpty1DTrans(list, iSize, requester) ==
  Append(list, TransListElem(<<iSize>>, requester))

\* GetEmpty2DTrans
GetEmpty2DTrans(list, iSize, requester) ==
  Append(list, TransListElem(iSize, requester))

\* what m_pDataset->GetInfo()->GetBitwith() on a null m_pDataset may lead to:
\* the process is terminated, or a value is read at an address near zero and
\* the null test that follows is kept ("false") or removed by a compiler that
\* takes the pointer to be valid after the dereference ("true")
UbNullDataset == {"crash", "false", "true"}

NoRenOp ==
  [op |-> "none", r |-> "", mgr |-> NULL, ret |-> FALSE, done |-> TRUE,
   pre1D |-> <<>>, pre2D |-> <<>>]

\* the controller after its constructor: no renderer
RenNew ==
  [m_vVolumeRenderer |-> <<>>,
   m_pDataset |-> [r \in Requesters |-> NULL],
   m_vpTrans1DList |-> <<>>,
   m_vpTrans2DList |-> <<>>,
   released |-> {},
   phase |-> "running",
   op |-> NoRenOp]

RenInit ==
  /\ RegInit /\ CacheIdle /\ TexIdle /\ UpIdle /\ SimpleIdle /\ LuaIdle
  /\ dbg = <<>>
  /\ ren = RenNew

\* the renderer is in the controller's list
Listed_Renderer(r) ==
  \E i \in 1..Len(ren.m_vVolumeRenderer) : ren.m_vVolumeRenderer[i] = r

RenRunning == ren.phase = "running" /\ ren.op.done

\* RequestNewVolumerenderer(OPENGL_SBVR): a new renderer at an address never
\* used before is appended to the list
RequestNewVolumerenderer(r) ==
  /\ RenRunning
  /\ ~Listed_Renderer(r) /\ r \notin ren.released
  /\ ren' = [ren EXCEPT !.m_vVolumeRenderer = Append(@, r),
                        !.op = [NoRenOp EXCEPT !.op = "RequestNew", !.r = r]]
  /\ UNCHANGED <<regVars, cacheVars, texVars, upVars, simpleVars, lua, dbg>>

\* AbstrRenderer::LoadDataset of renderer r: the manager's LoadDataset, then
\* GetEmpty1DTrans and GetEmpty2DTrans with sizes read through m_pDataset,
\* and only then the test of m_pDataset
AbstrRenderer_LoadDataset(r, strFilename, bIsLoaded, addr, ub) ==
  LET p == LoadDatasetRet(m_vpVolumeDatasets, heap, strFilename,
                          bIsLoaded, addr)
      iSize == IF p = NULL THEN 0 ELSE Shl1(Bitwith(strFilename)) IN
  /\ RenRunning
  /\ Listed_Renderer(r)
  /\ Len(ren.m_vpTrans1DList) < MaxTrans
  /\ LoadDataset(strFilename, r, bIsLoaded, addr)
  /\ ren' =
       IF p = NULL /\ ub = "crash"
       THEN [ren EXCEPT !.m_pDataset[r] = p,
                        !.op = [op |-> "LoadDataset", r |-> r, mgr |-> p,
                                ret |-> FALSE, done |-> FALSE,
                                pre1D |-> ren.m_vpTrans1DList,
                                pre2D |-> ren.m_vpTrans2DList]]
       ELSE [ren EXCEPT !.m_pDataset[r] = p,
                        !.m_vpTrans1DList = GetEmpty1DTrans(@, iSize, r),
                        !.m_vpTrans2DList =
                            GetEmpty2DTrans(@, <<iSize, 256>>, r),
                        !.op = [op |-> "LoadDataset", r |-> r, mgr |-> p,
                                ret |-> (p # NULL \/ ub = "true"),
                                done |-> TRUE,
                                pre1D |-> ren.m_vpTrans1DList,
                                pre2D |-> ren.m_vpTrans2DList]]
  /\ UNCHANGED <<lastCall, pending, once, cacheVars, texVars, upVars,
                 simpleVars, lua, dbg>>

\* ~AbstrRenderer of renderer r: FreeDataset(m_pDataset, this)
DeleteRenderer(r) == FreeDataset(ren.m_pDataset[r], r)

\* position of the renderer in the controller's list, 0 if it is not in it
RendererIndex(r) ==
  IF Listed_Renderer(r)
  THEN Min({i \in 1..Len(ren.m_vVolumeRenderer) :
              ren.m_vVolumeRenderer[i] = r})
  ELSE 0

\* ReleaseVolumerenderer: the renderer is deleted and erased from the list if
\* it is in the list; otherwise a warning is reported
ReleaseVolumerenderer(r) ==
  /\ RenRunning
  /\ IF Listed_Renderer(r)
     THEN /\ DeleteRenderer(r)
          /\ ren' = [ren EXCEPT
                       !.m_vVolumeRenderer = Erase(@, RendererIndex(r)),
                       !.released = @ \cup {r},
                       !.op = [NoRenOp EXCEPT !.op = "Release", !.r = r,
                                              !.ret = TRUE]]
     ELSE /\ ~crashed
          /\ UNCHANGED <<m_vpVolumeDatasets, heap, crashed>>
          /\ ren' = [ren EXCEPT
                       !.op = [NoRenOp EXCEPT !.op = "Release", !.r = r]]
  /\ UNCHANGED <<lastCall, pending, once, cacheVars, texVars, upVars,
                 simpleVars, lua, dbg>>

\* ~MasterController: the renderers of the list are deleted in list order,
\* then the list is emptied and the manager is deleted
DestroyController ==
  /\ RenRunning /\ ~crashed
  /\ ren' = [ren EXCEPT !.phase = "destroying",
                        !.op = [NoRenOp EXCEPT !.op = "~MasterController"]]
  /\ UNCHANGED <<regVars, cacheVars, texVars, upVars, simpleVars, lua, dbg>>

\* the next delete of the destructor's loop: the first renderer of the list
\* that is not yet deleted
DestroyNextRenderer ==
  LET left == {i \in 1..Len(ren.m_vVolumeRenderer) :
                 ren.m_vVolumeRenderer[i] \notin ren.released} IN
  /\ ren.phase = "destroying"
  /\ left # {}
  /\ DeleteRenderer(ren.m_vVolumeRenderer[Min(left)])
  /\ ren' = [ren EXCEPT
               !.released = @ \cup {ren.m_vVolumeRenderer[Min(left)]}]
  /\ UNCHANGED <<lastCall, pending, once, cacheVars, texVars, upVars,
                 simpleVars, lua, dbg>>

\* the end of the destructor: resize(0) and delete m_pGPUMemMan
DestroyManager ==
  /\ ren.phase = "destroying" /\ ~crashed
  /\ \A i \in 1..Len(ren.m_vVolumeRenderer) :
        ren.m_vVolumeRenderer[i] \in ren.released
  /\ ren' = [ren EXCEPT !.m_vVolumeRenderer = <<>>, !.phase = "gone"]
  /\ UNCHANGED <<regVars, cacheVars, texVars, upVars, simpleVars, lua, dbg>>

RenNext ==
  \/ \E r \in Requesters : RequestNewVolumerenderer(r)
  \/ \E r \in Requesters, f \in Files, ok \in BOOLEAN, a \in DatasetIds,
        ub \in UbNullDataset : AbstrRenderer_LoadDataset(r, f, ok, a, ub)
  \/ \E r \in Requesters : ReleaseVolumerenderer(r)
  \/ DestroyController
  \/ DestroyNextRenderer
  \/ DestroyManager

SpecRenderer == RenInit /\ [][RenNext]_vars

(***************************************************************************)
(* The debug output of the MasterController: SetDebugOut / RemoveDebugOut  *)
(***************************************************************************)
\* addresses of the debug outputs created by callers
DebugOuts == 1..MaxDebugOuts

\* address of the n-th ConsoleOut the controller creates (the constructor
\* creates number 0)
ConsoleOut(n) == 10 + n

NoDbgOp == [op |-> "none", arg |-> NULL, prev |-> NULL, wasOwned |-> FALSE,
            wasDeleted |-> {}]

\* the controller after its constructor: a ConsoleOut it owns
DbgNew ==
  [m_pDebugOut |-> ConsoleOut(0),
   m_bDeleteDebugOutOnExit |-> TRUE,
   deleted |-> {},
   nConsoles |-> 0,
   terminated |-> FALSE,
   op |-> NoDbgOp]

DbgInit ==
  /\ RegInit /\ CacheIdle /\ TexIdle /\ UpIdle /\ SimpleIdle /\ LuaIdle
  /\ ren = <<>>
  /\ dbg = DbgNew

\* the objects that exist: the callers' outputs and the consoles created,
\* without the deleted ones
LiveOuts ==
  (DebugOuts \cup {ConsoleOut(n) : n \in 0..dbg.nConsoles}) \ dbg.deleted

\* the record of a call
DbgOp(op, debugOut) ==
  [op |-> op, arg |-> debugOut, prev |-> dbg.m_pDebugOut,
   wasOwned |-> dbg.m_bDeleteDebugOutOnExit, wasDeleted |-> dbg.deleted]

\* the objects deleted once the call has executed
\* "if (m_bDeleteDebugOutOnExit) delete m_pDebugOut"
DeletedAfter ==
  IF dbg.m_bDeleteDebugOutOnExit THEN dbg.deleted \cup {dbg.m_pDebugOut}
  ELSE dbg.deleted

\* SetDebugOut(debugOut, bDeleteOnExit) with a live object or NULL; bGoesOn:
\* a Message call on a deleted object goes unnoticed (it is undefined)
SetDebugOut(debugOut, bDeleteOnExit, bGoesOn) ==
  /\ ~dbg.terminated
  /\ debugOut \in LiveOuts \cup {NULL}
  /\ dbg' =
       IF debugOut # NULL
       THEN [dbg EXCEPT !.deleted = DeletedAfter,
                        !.m_bDeleteDebugOutOnExit = bDeleteOnExit,
                        !.m_pDebugOut = debugOut,
                        !.terminated = debugOut \in DeletedAfter /\ ~bGoesOn,
                        !.op = DbgOp("SetDebugOut", debugOut)]
       ELSE [dbg EXCEPT !.op = DbgOp("SetDebugOut", debugOut)]
  /\ UNCHANGED <<regVars, cacheVars, texVars, upVars, simpleVars, lua, ren>>

\* RemoveDebugOut(debugOut): the pointer is only compared
RemoveDebugOut(debugOut) ==
  /\ ~dbg.terminated
  /\ debugOut = dbg.m_pDebugOut => dbg.nConsoles < MaxConsoles
  /\ dbg' =
       IF debugOut = dbg.m_pDebugOut
       THEN [dbg EXCEPT !.deleted = DeletedAfter,
                        !.m_pDebugOut = ConsoleOut(dbg.nConsoles + 1),
                        !.nConsoles = @ + 1,
                        !.m_bDeleteDebugOutOnExit = TRUE,
                        !.op = DbgOp("RemoveDebugOut", debugOut)]
       ELSE [dbg EXCEPT !.op = DbgOp("RemoveDebugOut", debugOut)]
  /\ UNCHANGED <<regVars, cacheVars, texVars, upVars, simpleVars, lua, ren>>

DbgNext ==
  \/ \E d \in DebugOuts \cup {ConsoleOut(n) : n \in 0..MaxConsoles} \cup {NULL},
        b \in BOOLEAN, g \in BOOLEAN : SetDebugOut(d, b, g)
  \/ \E d \in DebugOuts \cup {ConsoleOut(n) : n \in 0..MaxConsoles} \cup {NULL} :
       RemoveDebugOut(d)

SpecDebugOut == DbgInit /\ [][DbgNext]_vars

(***************************************************************************)
(* LuaScripting::setDefaults and cexec: the temporary provenance switch    *)
(***************************************************************************)
\* fully qualified names of the registered functions
LuaNames == {"f", "g"}

\* doProvenanceFromExec: the provenance log after the call of a function
\* that is not exempt; nothing is logged while provenance is disabled
\* temporarily
DoProvenanceFromExec(log, name, bDisableProvTemporarily) ==
  IF bDisableProvTemporarily THEN log ELSE Append(log, name)

\* LuaScripting after its constructor: provenance on, nothing logged
DefaultsInit ==
  /\ RegInit /\ CacheIdle /\ TexIdle /\ UpIdle /\ SimpleIdle /\ CtlIdle
  /\ lua = [bDisableProvTemporarily |-> FALSE, log |-> <<>>, n |-> 0,
            op |-> [op |-> "none", name |-> "", call |-> FALSE,
                    bThrows |-> FALSE, preLog |-> <<>>]]

\* cexec(name, p1): exec of the closure calls doProvenanceFromExec and runs
\* the bound function; an exception of the function leaves cexec
Cexec(name, bThrows) ==
  /\ lua.n < MaxLuaCalls
  /\ lua' = [lua EXCEPT
               !.log = DoProvenanceFromExec(@, name,
                                            lua.bDisableProvTemporarily),
               !.n = @ + 1,
               !.op = [op |-> "cexec", name |-> name, call |-> TRUE,
                       bThrows |-> bThrows, preLog |-> lua.log]]
  /\ UNCHANGED <<regVars, cacheVars, texVars, upVars, simpleVars, ctlVars>>

\* setDefaults(name, p1, call): setTempProvDisable(true), the call if it is
\* asked for, setTempProvDisable(false); an exception of the called function
\* leaves setDefaults before the last statement
SetDefaults(name, call, bThrows) ==
  /\ lua.n < MaxLuaCalls
  /\ bThrows => call
  /\ lua' = [lua EXCEPT
               !.bDisableProvTemporarily = bThrows,
               !.log = IF call THEN DoProvenanceFromExec(@, name, TRUE)
                       ELSE @,
               !.n = @ + 1,
               !.op = [op |-> "setDefaults", name |-> name, call |-> call,
                       bThrows |-> bThrows, preLog |-> lua.log]]
  /\ UNCHANGED <<regVars, cacheVars, texVars, upVars, simpleVars, ctlVars>>

DefaultsNext ==
  \/ \E name \in LuaNames, bThrows \in BOOLEAN : Cexec(name, bThrows)
  \/ \E name \in LuaNames, call \in BOOLEAN, bThrows \in BOOLEAN :
       SetDefaults(name, call, bThrows)

SpecDefaults == DefaultsInit /\ [][DefaultsNext]_vars

(***************************************************************************)
(* Properties of the dataset registry                                      *)
(***************************************************************************)
InRegistry(list, pVolumeDataset) ==
  \E i \in 1..Len(list) : list[i].pVolumeDataset = pVolumeDataset

\* the requester is a user of the dataset in this registry
Registered(list, pVolumeDataset, requester) ==
  \E i \in 1..Len(list) :
     /\ list[i].pVolumeDataset = pVolumeDataset
     /\ \E j \in 1..Len(list[i].qpUser) : list[i].qpUser[j] = requester

\* post is pre with one occurrence of the requester removed from the users of
\* the dataset, the entry being dropped if that leaves it without users
RemovedFrom(pre, post, pVolumeDataset, requester) ==
  \E i \in 1..Len(pre) :
     /\ pre[i].pVolumeDataset = pVolumeDataset
     /\ \E j \in 1..Len(pre[i].qpUser) :
           /\ pre[i].qpUser[j] = requester
           /\ LET rest == Erase(pre[i].qpUser, j) IN
              post = IF Len(rest) = 0 THEN Erase(pre, i)
                     ELSE [pre EXCEPT ![i].qpUser = rest]

\* C1: when every requester loaded the dataset once, the dataset is in the
\* registry (and alive) exactly as long as some requester that loaded it has
\* not yet called FreeDataset for it: the last of these calls destroys it and
\* drops it from the registry, no earlier call does, whatever the order.
C1_LastFreeDestroys ==
  \A a \in DatasetIds :
     once[a] =>
        /\ InRegistry(m_vpVolumeDatasets, a) <=> pending[a] # {}
        /\ heap[a] # NoFile <=> pending[a] # {}

\* C2: FreeDataset removes a registered requester from the users of the
\* dataset, whatever its position in the list, and changes nothing else.
C2_FreeRemovesRegisteredUser ==
  (/\ lastCall.op = "FreeDataset"
   /\ Registered(lastCall.pre, lastCall.ds, lastCall.req))
  => RemovedFrom(lastCall.pre, m_vpVolumeDatasets, lastCall.ds, lastCall.req)

\* the file of the last LoadDataset call was open when the call was made
\* (LoadDataset changes the heap only at an address no entry refers to)
WasOpen ==
  \E i \in 1..Len(lastCall.pre) :
     heap[lastCall.pre[i].pVolumeDataset] = lastCall.file

\* C3: LoadDataset of a file that is already open returns the instance of the
\* registry entry of that file, appends the requester to its users and
\* creates no entry; the registry never holds two entries for one file name.
C3_ReuseSameInstance ==
  /\ \A i, j \in 1..Len(m_vpVolumeDatasets) :
        i # j => /\ heap[m_vpVolumeDatasets[i].pVolumeDataset]
                      # heap[m_vpVolumeDatasets[j].pVolumeDataset]
                 /\ m_vpVolumeDatasets[i].pVolumeDataset
                      # m_vpVolumeDatasets[j].pVolumeDataset
  /\ (lastCall.op = "LoadDataset" /\ WasOpen)
     => \E i \in 1..Len(lastCall.pre) :
           /\ heap[lastCall.pre[i].pVolumeDataset] = lastCall.file
           /\ lastCall.ret = lastCall.pre[i].pVolumeDataset
           /\ m_vpVolumeDatasets =
                [lastCall.pre EXCEPT ![i].qpUser = Append(@, lastCall.req)]

\* a second requester reused the file of the second registry entry
C3_Witness ==
  /\ lastCall.op = "LoadDataset" /\ WasOpen
  /\ Len(m_vpVolumeDatasets) = 2
  /\ lastCall.ret = m_vpVolumeDatasets[2].pVolumeDataset
  /\ Len(m_vpVolumeDatasets[2].qpUser) = 2
  /\ m_vpVolumeDatasets[2].qpUser[1] # m_vpVolumeDatasets[2].qpUser[2]

\* C4: FreeDataset for a requester that is not registered for the dataset, or
\* for a dataset that is not in the registry, leaves the registry unchanged
\* and is not fatal.
C4_FreeUnregisteredIsNoOp ==
  (/\ lastCall.op = "FreeDataset"
   /\ ~Registered(lastCall.pre, lastCall.ds, lastCall.req))
  => /\ m_vpVolumeDatasets = lastCall.pre
     /\ ~crashed

\* C5: a LoadDataset that returns no dataset leaves the registry, entries and
\* user lists, as it was before the call.
C5_FailedLoadLeavesRegistry ==
  (lastCall.op = "LoadDataset" /\ lastCall.ret = NULL)
  => m_vpVolumeDatasets = lastCall.pre

\* a load failed while another dataset with two users was open
C5_Witness ==
  /\ lastCall.op = "LoadDataset" /\ lastCall.ret = NULL
  /\ Len(m_vpVolumeDatasets) = 1
  /\ Len(m_vpVolumeDatasets[1].qpUser) = 2


(***************************************************************************)
(* Volume brick cache: GLVolumeListElem                                    *)
(***************************************************************************)
\* datasets (Dataset*) that bricks are requested from
BrickDatasets == {1, 2}
\* brick keys of a dataset
BrickKeys == {1, 2, 3, 4, 5, 6}
\* recency stamps passed by the callers
Frames == {1, 2}
Intras == {0, 2, 5}
\* UINT64_INVALID, the stamp a best-match scan starts from: the largest value
\* of the counters' type (here the largest integer of the model checker)
StampInvalid == 2147483647

\* pDataset->GetBrickVoxelCounts(key): the inner bricks of both datasets have
\* one shape; brick 6 of dataset 1 and bricks 2 and 3 of dataset 2 differ from
\* it in x, y and z
BrickVoxelCounts(pDataset, key) ==
  IF pDataset = 1 THEN (IF key = 6 THEN <<3, 2, 2>> ELSE <<2, 2, 2>>)
  ELSE (IF key = 2 THEN <<2, 3, 2>>
        ELSE IF key = 3 THEN <<2, 2, 3>> ELSE <<2, 2, 2>>)

\* a request (dataset, key, paddedToPow2, downsampleTo8Bit, disableBorder,
\* emulate2DStacks)
Request(pDataset, key, bPow2, b8Bit, bNoBorder, b2D) ==
  [pDataset |-> pDataset, key |-> key,
   bIsPaddedToPowerOfTwo |-> bPow2, bIsDownsampledTo8Bits |-> b8Bit,
   bDisableBorder |-> bNoBorder, bEmulate3DWith2DStacks |-> b2D]

\* a constructor that counts two users
GLVolumeListElemTwoUsers(req, iIntraFrameCounter, iFrameCounter) ==
  [pDataset |-> req.pDataset,
   iUserCount |-> 2,
   m_iIntraFrameCounter |-> iIntraFrameCounter,
   m_iFrameCounter |-> iFrameCounter,
   m_Key |-> req.key,
   m_bIsPaddedToPowerOfTwo |-> req.bIsPaddedToPowerOfTwo,
   m_bIsDownsampledTo8Bits |-> req.bIsDownsampledTo8Bits,
   m_bDisableBorder |-> req.bDisableBorder,
   m_bEmulate3DWith2DStacks |-> req.bEmulate3DWith2DStacks,
   volumes |-> << <<req.pDataset, req.key>> >>]

\* the entry the constructor builds when CreateTexture succeeds: one user,
\* the caller's stamps, a texture holding the brick of the request
GLVolumeListElem(req, iIntraFrameCounter, iFrameCounter) ==
  [pDataset |-> req.pDataset,
   iUserCount |-> 1,
   m_iIntraFrameCounter |-> iIntraFrameCounter,
   m_iFrameCounter |-> iFrameCounter,
   m_Key |-> req.key,
   m_bIsPaddedToPowerOfTwo |-> req.bIsPaddedToPowerOfTwo,
   m_bIsDownsampledTo8Bits |-> req.bIsDownsampledTo8Bits,
   m_bDisableBorder |-> req.bDisableBorder,
   m_bEmulate3DWith2DStacks |-> req.bEmulate3DWith2DStacks,
   volumes |-> << <<req.pDataset, req.key>> >>]

\* an access that counts the user and leaves the stamps alone
AccessKeepStamps(e, iIntraFrameCounter, iFrameCounter) ==
  [e EXCEPT !.iUserCount = @ + 1]

\* Access: stamps and user count; the texture is returned
Access(e, iIntraFrameCounter, iFrameCounter) ==
  [e EXCEPT !.m_iIntraFrameCounter = iIntraFrameCounter,
            !.m_iFrameCounter = iFrameCounter,
            !.iUserCount = @ + 1]

\* the value Access returns: volumes[0], the GPU resource of the entry
AccessRet(e) == e.volumes[1]

\* a shape test that leaves out the last dimension
MatchTwoDims(e, vDimension) ==
  /\ Len(e.volumes) # 0
  /\ LET vSize == BrickVoxelCounts(e.pDataset, e.m_Key) IN
     \A i \in 1..2 : vSize[i] = vDimension[i]

\* Match: the voxel counts of the entry's brick against the requested ones
Match(e, vDimension) ==
  /\ Len(e.volumes) # 0
  /\ LET vSize == BrickVoxelCounts(e.pDataset, e.m_Key) IN
     \A i \in 1..3 : vSize[i] = vDimension[i]

\* an eligibility test that does not look at the user count
EligibleAnyUserCount(e, vDimension, bPow2, b8Bit, bNoBorder, b2D) ==
  ~ (\/ ~Match(e, vDimension)
     \/ e.m_bIsPaddedToPowerOfTwo # bPow2
     \/ e.m_bIsDownsampledTo8Bits # b8Bit
     \/ e.m_bDisableBorder # bNoBorder
     \/ e.m_bEmulate3DWith2DStacks # b2D)

\* the first test of BestMatch: shape, user count and the four flags
Eligible(e, vDimension, bPow2, b8Bit, bNoBorder, b2D) ==
  ~ (\/ ~Match(e, vDimension)
     \/ e.iUserCount > 0
     \/ e.m_bIsPaddedToPowerOfTwo # bPow2
     \/ e.m_bIsDownsampledTo8Bits # b8Bit
     \/ e.m_bDisableBorder # bNoBorder
     \/ e.m_bEmulate3DWith2DStacks # b2D)

\* a frame test that prefers the newer frame
OlderFrameReversed(e, iFrameCounter) == iFrameCounter < e.m_iFrameCounter

\* the second test of BestMatch: the entry's frame is older than the running one
OlderFrame(e, iFrameCounter) == iFrameCounter > e.m_iFrameCounter

\* the third test of BestMatch: same frame, and the running intra-frame
\* counter is smaller than the entry's
SameFrameTest(e, iIntraFrameCounter, iFrameCounter) ==
  /\ iFrameCounter = e.m_iFrameCounter
  /\ iIntraFrameCounter < e.m_iIntraFrameCounter

\* BestMatch: the result and the two counters passed by reference
BestMatch(e, vDimension, bPow2, b8Bit, bNoBorder, b2D, iIntraFrameCounter, iFrameCounter) ==
  IF ~Eligible(e, vDimension, bPow2, b8Bit, bNoBorder, b2D)
  THEN [ret |-> FALSE, iIntraFrameCounter |-> iIntraFrameCounter,
        iFrameCounter |-> iFrameCounter]
  ELSE IF OlderFrame(e, iFrameCounter)
  THEN [ret |-> TRUE, iIntraFrameCounter |-> e.m_iIntraFrameCounter,
        iFrameCounter |-> e.m_iFrameCounter]
  ELSE IF SameFrameTest(e, iIntraFrameCounter, iFrameCounter)
  THEN [ret |-> TRUE, iIntraFrameCounter |-> e.m_iIntraFrameCounter,
        iFrameCounter |-> e.m_iFrameCounter]
  ELSE [ret |-> FALSE, iIntraFrameCounter |-> iIntraFrameCounter,
        iFrameCounter |-> iFrameCounter]

\* Equals: dataset, key and the four flags
Equals(e, req) ==
  ~ (\/ req.pDataset # e.pDataset
     \/ e.m_Key # req.key
     \/ e.m_bIsPaddedToPowerOfTwo # req.bIsPaddedToPowerOfTwo
     \/ e.m_bIsDownsampledTo8Bits # req.bIsDownsampledTo8Bits
     \/ e.m_bDisableBorder # req.bDisableBorder
     \/ e.m_bEmulate3DWith2DStacks # req.bEmulate3DWith2DStacks)

\* outcomes of the calls Replace makes: the brick fetch fails, the upload
\* leaves a GL error, or both succeed
ReplaceOutcomes == {"loadfail", "glerror", "ok"}

\* a Replace that keeps the dataset the entry was bound to
ReplaceKeepDataset(e, req, iIntraFrameCounter, iFrameCounter, outcome) ==
  IF Len(e.volumes) = 0 THEN e
  ELSE [e EXCEPT !.m_Key = req.key,
                 !.m_bIsPaddedToPowerOfTwo = req.bIsPaddedToPowerOfTwo,
                 !.m_bIsDownsampledTo8Bits = req.bIsDownsampledTo8Bits,
                 !.m_bDisableBorder = req.bDisableBorder,
                 !.m_bEmulate3DWith2DStacks = req.bEmulate3DWith2DStacks,
                 !.m_iIntraFrameCounter = iIntraFrameCounter,
                 !.m_iFrameCounter = iFrameCounter,
                 !.volumes[1] = IF outcome = "loadfail" THEN @
                                ELSE <<e.pDataset, req.key>>]

\* a Replace that counts the request as a user of the entry
ReplaceCountsUser(e, req, iIntraFrameCounter, iFrameCounter, outcome) ==
  IF Len(e.volumes) = 0 THEN e
  ELSE [e EXCEPT !.pDataset = req.pDataset,
                 !.m_Key = req.key,
                 !.m_bIsPaddedToPowerOfTwo = req.bIsPaddedToPowerOfTwo,
                 !.m_bIsDownsampledTo8Bits = req.bIsDownsampledTo8Bits,
                 !.m_bDisableBorder = req.bDisableBorder,
                 !.m_bEmulate3DWith2DStacks = req.bEmulate3DWith2DStacks,
                 !.m_iIntraFrameCounter = iIntraFrameCounter,
                 !.m_iFrameCounter = iFrameCounter,
                 !.iUserCount = 1,
                 !.volumes[1] = IF outcome = "loadfail" THEN @
                                ELSE <<req.pDataset, req.key>>]

\* Replace: the entry after the call; the fields are assigned before the
\* brick is fetched, the texture receives the data (SetData) only if the
\* fetch worked
Replace(e, req, iIntraFrameCounter, iFrameCounter, outcome) ==
  IF Len(e.volumes) = 0 THEN e
  ELSE [e EXCEPT !.pDataset = req.pDataset,
                 !.m_Key = req.key,
                 !.m_bIsPaddedToPowerOfTwo = req.bIsPaddedToPowerOfTwo,
                 !.m_bIsDownsampledTo8Bits = req.bIsDownsampledTo8Bits,
                 !.m_bDisableBorder = req.bDisableBorder,
                 !.m_bEmulate3DWith2DStacks = req.bEmulate3DWith2DStacks,
                 !.m_iIntraFrameCounter = iIntraFrameCounter,
                 !.m_iFrameCounter = iFrameCounter,
                 !.volumes[1] = IF outcome = "loadfail" THEN @
                                ELSE <<req.pDataset, req.key>>]

\* the value Replace returns
ReplaceRet(e, outcome) == Len(e.volumes) # 0 /\ outcome = "ok"

\* the best-match scan of the manager: BestMatch is called on every entry in
\* list order, the running counters are carried from call to call, and the
\* last entry that returned true is the candidate (0: none)
ScanRun(list, req) ==
  LET vDimension == BrickVoxelCounts(req.pDataset, req.key)
      run[i \in 0..Len(list)] ==
        IF i = 0
        THEN [iIntraFrameCounter |-> StampInvalid,
              iFrameCounter |-> StampInvalid, iBestMatch |-> 0]
        ELSE LET prev == run[i - 1]
                 r == BestMatch(list[i], vDimension,
                                req.bIsPaddedToPowerOfTwo,
                                req.bIsDownsampledTo8Bits,
                                req.bDisableBorder,
                                req.bEmulate3DWith2DStacks,
                                prev.iIntraFrameCounter, prev.iFrameCounter) IN
             [iIntraFrameCounter |-> r.iIntraFrameCounter,
              iFrameCounter |-> r.iFrameCounter,
              iBestMatch |-> IF r.ret THEN i ELSE prev.iBestMatch] IN
  run[Len(list)]

BestMatchScan(list, req) == ScanRun(list, req).iBestMatch

(***************************************************************************)
(* SpecCache: the brick cache under arbitrary requests                     *)
(***************************************************************************)
\* the bricks requested in SpecCache, <<dataset, key>>: bricks of one shape
\* in both datasets and a brick of another shape
CacheBricks == {<<1, 1>>, <<1, 2>>, <<2, 1>>, <<2, 2>>}
\* the stamps passed in SpecCache, <<intra-frame counter, frame counter>>
CacheStamps == {<<2, 1>>, <<0, 2>>}

CacheRequests ==
  {Request(b[1], b[2], FALSE, FALSE, FALSE, FALSE) : b \in CacheBricks}

\* some entry of the list Equals the request
Resident(list, req) == \E j \in 1..Len(list) : Equals(list[j], req)

\* no entry Equals the request: a new entry is created and appended
NewBrick(req, iIntraFrameCounter, iFrameCounter) ==
  /\ Len(volumeList) < MaxEntries
  /\ ~Resident(volumeList, req)
  /\ volumeList' = Append(volumeList,
                          GLVolumeListElem(req, iIntraFrameCounter,
                                           iFrameCounter))
  /\ lastOp' = [NoOp EXCEPT !.op = "New"]
  /\ UNCHANGED <<regVars, texVars, extVars>>

\* a renderer accesses an entry
AccessBrick(i, iIntraFrameCounter, iFrameCounter) ==
  /\ i \in 1..Len(volumeList)
  /\ volumeList[i].iUserCount < MaxBrickUsers
  /\ volumeList' = [volumeList EXCEPT
                      ![i] = Access(@, iIntraFrameCounter, iFrameCounter)]
  /\ lastOp' = [NoOp EXCEPT !.op = "Access"]
  /\ UNCHANGED <<regVars, texVars, extVars>>

\* a renderer releases an entry it uses
ReleaseBrick(i) ==
  /\ i \in 1..Len(volumeList)
  /\ volumeList[i].iUserCount > 0
  /\ volumeList' = [volumeList EXCEPT ![i].iUserCount = @ - 1]
  /\ lastOp' = [NoOp EXCEPT !.op = "Release"]
  /\ UNCHANGED <<regVars, texVars, extVars>>

\* no entry Equals the request: the entry found by the best-match scan is
\* replaced with the requested brick; lastOp.was is the brick it was bound to
ReplaceBrick(req) ==
  LET i == BestMatchScan(volumeList, req) IN
  /\ ~Resident(volumeList, req)
  /\ i # 0
  /\ \E st \in CacheStamps, outcome \in ReplaceOutcomes :
        /\ volumeList' = [volumeList EXCEPT
                            ![i] = Replace(@, req, st[1], st[2], outcome)]
        /\ lastOp' = [op |-> "Replace", idx |-> i,
                      ret |-> ReplaceRet(volumeList[i], outcome),
                      req |-> req,
                      was |-> <<volumeList[i].pDataset,
                                volumeList[i].m_Key>>]
  /\ UNCHANGED <<regVars, texVars, extVars>>

CacheInit == RegInit /\ CacheIdle /\ TexIdle /\ ExtIdle

CacheNext ==
  \/ \E req \in CacheRequests, st \in CacheStamps :
       NewBrick(req, st[1], st[2])
  \/ \E i \in 1..MaxEntries, st \in CacheStamps :
       AccessBrick(i, st[1], st[2])
  \/ \E i \in 1..MaxEntries : ReleaseBrick(i)
  \/ \E req \in CacheRequests : ReplaceBrick(req)

SpecCache == CacheInit /\ [][CacheNext]_vars

(***************************************************************************)
(* SpecScan, SpecMatch: one best-match scan over a drawn entry list        *)
(***************************************************************************)
\* an entry as it is after construction, accesses and releases
Entry(req, iUserCount, iIntraFrameCounter, iFrameCounter) ==
  [GLVolumeListElem(req, iIntraFrameCounter, iFrameCounter)
     EXCEPT !.iUserCount = iUserCount]

\* the best-match scan alone: lastOp.idx is the candidate, 0 if there is none
SearchBrick(req) ==
  /\ lastOp.op = "none"
  /\ lastOp' = [op |-> "BestMatch", idx |-> BestMatchScan(volumeList, req),
                ret |-> BestMatchScan(volumeList, req) # 0,
                req |-> req, was |-> <<>>]
  /\ UNCHANGED <<volumeList, regVars, texVars, extVars>>

\* SpecScan: entries of one shape and format with all stamps, used or
\* unused (s = <<iUserCount, intra-frame counter, frame counter>>); the entry
\* at position j is bound to brick j of dataset 1
ScanEntry(j, s) ==
  Entry(Request(1, j, FALSE, FALSE, FALSE, FALSE), s[1], s[2], s[3])

\* the brick list holds 1..MaxScanLen such entries
ScanList(len, s) == [j \in 1..len |-> ScanEntry(j, s[j])]

\* a brick of the entries' shape that is not resident, in their format and
\* in another format
ScanRequests ==
  {Request(1, 5, FALSE, FALSE, FALSE, FALSE),
   Request(1, 5, FALSE, TRUE, FALSE, FALSE)}

ScanInit ==
  /\ RegInit
  /\ \E len \in 1..MaxScanLen :
        \E s \in [1..len -> {0, 1} \X Intras \X Frames] :
           volumeList = ScanList(len, s)
  /\ lastOp = NoOp
  /\ TexIdle /\ ExtIdle

ScanNext == \E req \in ScanRequests : SearchBrick(req)

SpecScan == ScanInit /\ [][ScanNext]_vars

\* SpecMatch: one entry and one request of every dataset, brick and format
AllFlags == [1..4 -> BOOLEAN]

MatchRequests ==
  {Request(d, k, f[1], f[2], f[3], f[4]) :
     d \in BrickDatasets, k \in BrickKeys, f \in AllFlags}

MatchLists ==
  {<<Entry(req, u, 2, 1)>> : req \in MatchRequests, u \in {0, 1}}

MatchInit ==
  /\ RegInit
  /\ volumeList \in MatchLists
  /\ lastOp = NoOp
  /\ TexIdle /\ ExtIdle

\* BestMatch on the entry, with running counters of an earlier call:
\* lastOp.idx is 1 if the entry is accepted, 0 if it is not
TryBestMatch(req, iIntraFrameCounter, iFrameCounter) ==
  LET r == BestMatch(volumeList[1],
                     BrickVoxelCounts(req.pDataset, req.key),
                     req.bIsPaddedToPowerOfTwo, req.bIsDownsampledTo8Bits,
                     req.bDisableBorder, req.bEmulate3DWith2DStacks,
                     iIntraFrameCounter, iFrameCounter) IN
  /\ lastOp.op = "none"
  /\ lastOp' = [op |-> "BestMatch", idx |-> IF r.ret THEN 1 ELSE 0,
                ret |-> r.ret, req |-> req, was |-> <<>>]
  /\ UNCHANGED <<volumeList, regVars, texVars, extVars>>

\* Access on the entry with the caller's stamps: lastOp.was is the entry
\* before the call, lastOp.req the stamps passed, lastOp.ret what is returned
AccessEntry(iIntraFrameCounter, iFrameCounter) ==
  /\ lastOp.op = "none"
  /\ volumeList' = <<Access(volumeList[1], iIntraFrameCounter, iFrameCounter)>>
  /\ lastOp' = [op |-> "Access", idx |-> 1, ret |-> AccessRet(volumeList[1]),
                req |-> <<iIntraFrameCounter, iFrameCounter>>,
                was |-> volumeList[1]]
  /\ UNCHANGED <<regVars, texVars, extVars>>

MatchNext ==
  \/ \E req \in MatchRequests, n \in Intras, f \in Frames :
        TryBestMatch(req, n, f)
  \/ \E n \in Intras, f \in Frames : AccessEntry(n, f)

SpecMatch == MatchInit /\ [][MatchNext]_vars

(***************************************************************************)
(* SpecLease: requests for one brick, then its releases, then a search     *)
(***************************************************************************)
\* a request for the brick: the first one builds the entry, a later one finds
\* the entry that Equals the request and calls Access on it
RequestBrick(req, iIntraFrameCounter, iFrameCounter) ==
  /\ lastOp.op = "none"
  /\ lease.nFree = 0
  /\ lease.nAccess < MaxLease
  /\ IF volumeList = <<>>
     THEN volumeList' = <<GLVolumeListElem(req, iIntraFrameCounter,
                                           iFrameCounter)>>
     ELSE /\ Equals(volumeList[1], req)
          /\ volumeList' = <<Access(volumeList[1], iIntraFrameCounter,
                                     iFrameCounter)>>
  /\ lease' = [lease EXCEPT !.nAccess = @ + 1]
  /\ UNCHANGED <<lastOp, regVars, extVars, dataset, brick, vData, texOp>>

\* a release of the brick by one of those who requested it
FreeBrick ==
  /\ lastOp.op = "none"
  /\ lease.nFree < lease.nAccess
  /\ volumeList[1].iUserCount > 0
  /\ volumeList' = [volumeList EXCEPT ![1].iUserCount = @ - 1]
  /\ lease' = [lease EXCEPT !.nFree = @ + 1]
  /\ UNCHANGED <<lastOp, regVars, extVars, dataset, brick, vData, texOp>>

\* a best-match scan for another request while the entry exists
LeaseSearch(req) ==
  /\ volumeList # <<>>
  /\ SearchBrick(req)

LeaseInit == RegInit /\ CacheIdle /\ TexIdle /\ ExtIdle

LeaseNext ==
  \/ \E req \in CacheRequests, st \in CacheStamps :
       RequestBrick(req, st[1], st[2])
  \/ FreeBrick
  \/ \E req \in CacheRequests : LeaseSearch(req)

SpecLease == LeaseInit /\ [][LeaseNext]_vars

(***************************************************************************)
(* PadData: a brick padded to powers of two.  A buffer is a sequence of    *)
(* bytes; the byte at offset o of the C++ buffer is element o + 1.         *)
(***************************************************************************)
Pow2s == {1, 2, 4, 8, 16, 32}

\* MathTools::IsPow2
IsPow2(n) == n \in Pow2s

\* MathTools::NextPow2: n if n is a power of two, else the next one above
NextPow2(n) == CHOOSE p \in Pow2s : p >= n /\ \A q \in Pow2s : q >= n => p <= q

\* a source offset that starts every plane at the first one
SourceRowOffsetNoPlane(vSize, iElementSize, z, y) ==
  y * (vSize[1] * iElementSize)

\* iSource when row y of plane z is copied
SourceRowOffset(vSize, iElementSize, z, y) ==
  (z * vSize[2] + y) * (vSize[1] * iElementSize)

\* byte b of a target row is written by the memcpy of the source row
InSourceRow(b, iRowSizeSource) == b < iRowSizeSource

\* a border copy that takes the first element of the row
BorderSourceFirst(b, iElementSize) == b % iElementSize

\* the byte of the row that the x border copy writes to byte b
BorderSource(b, iElementSize) == b - iElementSize

\* a copy that repeats the first byte of the source row
SourceByteRowStart(pRawData, iSource, b) == pRawData[iSource + 1]

\* the byte at offset b behind iSource
SourceByte(pRawData, iSource, b) == pRawData[iSource + b + 1]

\* byte b of row y of plane z after the row loop, for y and z inside the brick
PaddedRowByte(pRawData, vSize, iElementSize, m_bDisableBorder, z, y, b) ==
  LET iRowSizeSource == vSize[1] * iElementSize
      iSource == SourceRowOffset(vSize, iElementSize, z, y) IN
  IF InSourceRow(b, iRowSizeSource) THEN SourceByte(pRawData, iSource, b)
  ELSE IF ~m_bDisableBorder /\ b < iRowSizeSource + iElementSize
       THEN SourceByte(pRawData, iSource, BorderSource(b, iElementSize))
       ELSE 0

\* a y border copy that does not look at the border flag
PaddedPlaneByteBorderAlways(pRawData, vSize, iElementSize, m_bDisableBorder, z, y, b) ==
  IF y < vSize[2]
  THEN PaddedRowByte(pRawData, vSize, iElementSize, m_bDisableBorder, z, y, b)
  ELSE IF y = vSize[2]
       THEN PaddedRowByte(pRawData, vSize, iElementSize, m_bDisableBorder,
                          z, vSize[2] - 1, b)
       ELSE 0

\* byte b of row y of plane z after the y border copy, for z inside the brick
PaddedPlaneByte(pRawData, vSize, iElementSize, m_bDisableBorder, z, y, b) ==
  IF y < vSize[2]
  THEN PaddedRowByte(pRawData, vSize, iElementSize, m_bDisableBorder, z, y, b)
  ELSE IF ~m_bDisableBorder /\ y = vSize[2]
       THEN PaddedRowByte(pRawData, vSize, iElementSize, m_bDisableBorder,
                          z, vSize[2] - 1, b)
       ELSE 0

\* byte b of row y of plane z of the buffer PadData returns
PaddedByte(pRawData, vSize, iElementSize, m_bDisableBorder, z, y, b) ==
  IF z < vSize[3]
  THEN PaddedPlaneByte(pRawData, vSize, iElementSize, m_bDisableBorder, z, y, b)
  ELSE IF ~m_bDisableBorder /\ z = vSize[3]
       THEN PaddedPlaneByte(pRawData, vSize, iElementSize, m_bDisableBorder,
                            vSize[3] - 1, y, b)
       ELSE 0

\* PadData: the pair (pPaddedData, vPaddedSize); the buffer is zeroed, the
\* source rows are copied, then one element, one row and one plane are
\* duplicated behind them unless the border is disabled.  A failed allocation
\* returns the null pointer, <<>>.
PadData(pRawData, vSize, iBitWidth, iCompCount, m_bDisableBorder, bAllocated) ==
  LET vPaddedSize == <<NextPow2(vSize[1]), NextPow2(vSize[2]),
                       NextPow2(vSize[3])>>
      iElementSize == (iBitWidth \div 8) * iCompCount
      iRowSizeTarget == vPaddedSize[1] * iElementSize IN
  IF ~bAllocated THEN [first |-> <<>>, second |-> vPaddedSize]
  ELSE [first |->
          [k \in 1..(iRowSizeTarget * vPaddedSize[2] * vPaddedSize[3]) |->
             PaddedByte(pRawData, vSize, iElementSize, m_bDisableBorder,
                        (k - 1) \div (iRowSizeTarget * vPaddedSize[2]),
                        ((k - 1) \div iRowSizeTarget) % vPaddedSize[2],
                        (k - 1) % iRowSizeTarget)],
        second |-> vPaddedSize]

(***************************************************************************)
(* SpecPad: PadData applied to drawn bricks                                *)
(***************************************************************************)
\* the y and z sizes of the bricks
PadSizes == {1, 2, 3}
\* the first byte value of a brick; byte k of the brick holds PadFirst + k
PadFirsts == {1, 100}

PadBricks ==
  [vSize : (1..MaxSizeX) \X PadSizes \X PadSizes, iBitWidth : {8, 16},
   iCompCount : {1}, m_bDisableBorder : BOOLEAN]

\* the bytes of a brick of this size, all different and none of them 0
RawBrick(b, first) ==
  [k \in 1..(b.vSize[1] * b.vSize[2] * b.vSize[3]
               * (b.iBitWidth \div 8) * b.iCompCount) |-> first + k - 1]

PadInit ==
  /\ RegInit /\ CacheIdle /\ ExtIdle
  /\ lease = NoLease
  /\ dataset = <<>>
  /\ brick \in PadBricks
  /\ \E first \in PadFirsts : vData = RawBrick(brick, first)
  /\ texOp = NoTex

CallPadData(bAllocated) ==
  /\ texOp.op = "none"
  /\ texOp' = [op |-> "PadData",
               padded |-> PadData(vData, brick.vSize, brick.iBitWidth,
                                  brick.iCompCount, brick.m_bDisableBorder,
                                  bAllocated)]
  /\ UNCHANGED <<regVars, extVars, cacheVars, lease, dataset, brick, vData>>

PadNext == \E bAllocated \in BOOLEAN : CallPadData(bAllocated)

SpecPad == PadInit /\ [][PadNext]_vars

(***************************************************************************)
(* CreateTexture: the texture of a new entry.  The host is little-endian.  *)
(***************************************************************************)
\* ((unsigned short*)p)[i] on the host, from the bytes at offsets 2i, 2i+1
HostShort(lo, hi) == lo + 256 * hi

\* the bytes a Dataset returns for a brick: the dataset repeats four bytes,
\* so its 16-bit samples alternate between two values
GetBrick(ds, vSize) ==
  [k \in 1..(vSize[1] * vSize[2] * vSize[3] * (ds.iBitWidth \div 8)
             * ds.iCompCount) |->
     <<ds.bytes[1], ds.bytes[2], 1, 2>>[((k - 1) % 4) + 1]]

\* what a conversion of an out-of-range double to unsigned char may produce
UbModes == {"wrap", "zero", "max"}

\* (255.0*v - fMin) / (fMax-fMin), truncated towards zero: the integer the
\* conversion to unsigned char has to represent
Truncated(v, fMin, fMax) ==
  LET num == 255 * v - fMin IN
  IF num >= 0 THEN num \div (fMax - fMin)
  ELSE 0 - ((0 - num) \div (fMax - fMin))

\* (unsigned char)((255.0*v - fMin) / (fMax-fMin)): the quotient is truncated
\* towards zero; outside 0..255 the conversion is undefined
Quantize(v, fMin, fMax, ub) ==
  LET t == Truncated(v, fMin, fMax) IN
  IF t \in 0..255 THEN t
  ELSE IF ub = "wrap" THEN t % 256
  ELSE IF ub = "zero" THEN 0 ELSE 255

\* the buffer after the quantization loop: sample i is written to byte i, the
\* bytes behind the samples keep their content
QuantizedData(pRawData, iSamples, fMin, fMax, ub) ==
  [k \in 1..Len(pRawData) |->
     IF k <= iSamples
     THEN Quantize(HostShort(pRawData[2 * k - 1], pRawData[2 * k]),
                   fMin, fMax, ub)
     ELSE pRawData[k]]

\* EndianConvert::Swap<short> on every sample of the buffer
SwappedShorts(pRawData, iSamples) ==
  [k \in 1..Len(pRawData) |->
     IF k <= 2 * iSamples
     THEN (IF k % 2 = 1 THEN pRawData[k + 1] ELSE pRawData[k - 1])
     ELSE pRawData[k]]

\* a switch that takes four components for three
GlFormatNoAlpha(iCompCount) ==
  IF iCompCount = 1 THEN "GL_LUMINANCE"
  ELSE IF iCompCount \in {3, 4} THEN "GL_RGB" ELSE "none"

\* the first switch on iCompCount
GlFormat(iCompCount) ==
  IF iCompCount = 1 THEN "GL_LUMINANCE"
  ELSE IF iCompCount = 3 THEN "GL_RGB"
  ELSE IF iCompCount = 4 THEN "GL_RGBA" ELSE "none"

\* glType, glInternalformat and glFormat for the effective bit width
GlLayout(iBitWidth, iCompCount) ==
  IF iBitWidth = 8
  THEN [glType |-> "GL_UNSIGNED_BYTE", glFormat |-> GlFormat(iCompCount),
        glInternalformat |->
          IF iCompCount = 1 THEN "GL_LUMINANCE8"
          ELSE IF iCompCount = 3 THEN "GL_RGB8" ELSE "GL_RGBA8"]
  ELSE IF iBitWidth = 16
  THEN [glType |-> "GL_UNSIGNED_SHORT", glFormat |-> GlFormat(iCompCount),
        glInternalformat |->
          IF iCompCount = 1 THEN "GL_LUMINANCE16"
          ELSE IF iCompCount = 3 THEN "GL_RGB16" ELSE "GL_RGBA16"]
  ELSE [glType |-> "GL_FLOAT", glFormat |-> "GL_LUMINANCE",
        glInternalformat |-> "GL_LUMINANCE32F_ARB"]

\* outcomes of the calls CreateTexture makes: the brick fetch fails, the
\* allocation in PadData fails, the GL calls leave an error, or all succeed
CreateOutcomes == {"loadfail", "badalloc", "glerror", "ok"}

\* CreateTexture returned false before it created a texture; volumes is the
\* sequence of the textures the entry holds, <<>> when volumes[0] is NULL
CreateFailed == [ret |-> FALSE, volumes |-> <<>>]

\* CreateTexture from the point where pRawData is chosen: the value returned,
\* the texture held when it returns, and the raw buffer as the quantization
\* and the byte swap have left it (both work in place)
CreateTextureFrom(pRawData, e, ds, outcome, ub) ==
  LET vSize == BrickVoxelCounts(e.pDataset, e.m_Key)
      iSamples == vSize[1] * vSize[2] * vSize[3] * ds.iCompCount
      bQuantize == e.m_bIsDownsampledTo8Bits /\ ds.iBitWidth # 8
      iBitWidth == IF bQuantize THEN 8 ELSE ds.iBitWidth
      quantized == IF bQuantize /\ ds.iBitWidth = 16
                   THEN QuantizedData(pRawData, iSamples, ds.fMin, ds.fMax, ub)
                   ELSE pRawData
      bSwap == /\ ds.iCompCount \in {1, 3, 4}
               /\ iBitWidth = 16 /\ ~ds.bSameEndianness
      swapped == IF bSwap THEN SwappedShorts(quantized, iSamples)
                 ELSE quantized
      bPad == /\ e.m_bIsPaddedToPowerOfTwo
              /\ ~(IsPow2(vSize[1]) /\ IsPow2(vSize[2]) /\ IsPow2(vSize[3]))
      padded == PadData(swapped, vSize, iBitWidth, ds.iCompCount,
                        e.m_bDisableBorder, outcome # "badalloc")
      layout == GlLayout(iBitWidth, ds.iCompCount) IN
  IF outcome = "loadfail"
  THEN [raw |-> pRawData] @@ CreateFailed
  ELSE IF \/ bQuantize /\ ds.iBitWidth # 16
          \/ ds.iCompCount \notin {1, 3, 4}
          \/ iBitWidth \notin {8, 16, 32}
  THEN [raw |-> swapped] @@ CreateFailed
  ELSE [ret |-> outcome # "glerror",
        volumes |->
         <<[vSize |-> IF bPad THEN padded.second ELSE vSize,
           glInternalformat |-> layout.glInternalformat,
           glFormat |-> layout.glFormat,
           glType |-> layout.glType,
           iSizePerElement |-> (iBitWidth \div 8) * ds.iCompCount,
           pData |-> IF bPad THEN padded.first
                     ELSE SubSeq(swapped, 1, (iSamples * iBitWidth) \div 8)]>>,
        raw |-> swapped]

\* CreateTexture on a new entry e of a dataset ds, whose staging buffer is
\* empty: the brick is fetched; the value returned and the texture held when
\* it returns
CreateTexture(e, ds, outcome, ub) ==
  LET r == CreateTextureFrom(GetBrick(ds, BrickVoxelCounts(e.pDataset, e.m_Key)),
                             e, ds, outcome, ub) IN
  [ret |-> r.ret, volumes |-> r.volumes]

(***************************************************************************)
(* SpecCreate: one request for a brick of a drawn dataset                  *)
(***************************************************************************)
\* what the Dataset reports: bit width, component count, endianness, range,
\* and the two bytes its bricks start with
Datasets ==
  {ds \in [iBitWidth : {8, 16, 24, 32}, iCompCount : {1, 2, 3, 4},
           bSameEndianness : BOOLEAN, fMin : {0, 256}, fMax : {65535},
           bytes : {0, 1, 255} \X {0, 128, 255}] :
     ds.iBitWidth = 16
     => \A v \in {HostShort(ds.bytes[1], ds.bytes[2]),
                  HostShort(ds.bytes[2], ds.bytes[1])} :
           ds.fMin <= v /\ v <= ds.fMax}

\* requests for the bricks 1 (2 x 2 x 2) and 2 (2 x 3 x 2) of dataset 2
CreateRequests ==
  {Request(2, key, bPow2, b8Bit, FALSE, FALSE) :
     key \in {1, 2}, bPow2 \in BOOLEAN, b8Bit \in BOOLEAN}

\* the brick list before the request: empty, or one unused brick of dataset 1
CreateLists ==
  {<<>>, <<Entry(Request(1, 1, FALSE, FALSE, FALSE, FALSE), 0, 2, 1)>>}

CreateInit ==
  /\ RegInit /\ ExtIdle
  /\ volumeList \in CreateLists
  /\ lastOp = NoOp
  /\ lease = NoLease
  /\ dataset \in Datasets
  /\ brick = <<>>
  /\ vData = <<>>
  /\ texOp = NoTex

\* the request is served by a new entry: the constructor calls CreateTexture
\* and frees the texture if that returned false; an entry without a texture
\* is not kept
NewEntry(req, outcome, ub) ==
  LET e == GLVolumeListElem(req, 0, 2)
      r == CreateTexture(e, dataset, outcome, ub)
      volumes == IF r.ret THEN r.volumes ELSE <<>> IN
  /\ texOp.op = "none"
  /\ ~Resident(volumeList, req)
  /\ volumeList' = IF volumes = <<>> THEN volumeList
                   ELSE Append(volumeList, [e EXCEPT !.volumes = volumes])
  /\ texOp' = [op |-> "CreateTexture", ret |-> r.ret, created |-> r.volumes,
               volumes |-> volumes, req |-> req, pre |-> Len(volumeList)]
  /\ UNCHANGED <<regVars, extVars, lastOp, lease, dataset, brick, vData>>

\* the request is served by the entry the best-match scan found
ReplaceEntry(req, outcome) ==
  LET i == BestMatchScan(volumeList, req) IN
  /\ texOp.op = "none"
  /\ ~Resident(volumeList, req)
  /\ i # 0
  /\ volumeList' = [volumeList EXCEPT ![i] = Replace(@, req, 0, 2, outcome)]
  /\ texOp' = [op |-> "Replace", ret |-> ReplaceRet(volumeList[i], outcome),
               created |-> <<>>,
               volumes |-> IF ReplaceRet(volumeList[i], outcome)
                           THEN volumeList[i].volumes ELSE <<>>,
               req |-> req, pre |-> Len(volumeList)]
  /\ UNCHANGED <<regVars, extVars, lastOp, lease, dataset, brick, vData>>

CreateNext ==
  \/ \E req \in CreateRequests, outcome \in CreateOutcomes, ub \in UbModes :
       NewEntry(req, outcome, ub)
  \/ \E req \in CreateRequests, outcome \in ReplaceOutcomes :
       ReplaceEntry(req, outcome)

SpecCreate == CreateInit /\ [][CreateNext]_vars

(***************************************************************************)
(* SpecQuantize: the quantization of one sample of a dataset whose range   *)
(* is drawn from 0..65535                                                  *)
(***************************************************************************)
\* ends of the ranges and sample values drawn
QuantValues == {0, 1, 100, 200, 255, 256, 32768, 65535}

\* the ranges [fMin, fMax] a dataset reports
QuantRanges ==
  {d \in [fMin : QuantValues, fMax : QuantValues] : d.fMin < d.fMax}

QuantInit ==
  /\ RegInit /\ CacheIdle /\ ExtIdle
  /\ lease = NoLease
  /\ dataset \in QuantRanges
  /\ brick = <<>>
  /\ vData = <<>>
  /\ texOp = NoTex

\* one pass of the quantization loop on a sample v of the range: texOp keeps
\* the sample, the truncated quotient and the byte stored
QuantizeSample(v, ub) ==
  /\ texOp.op = "none"
  /\ dataset.fMin <= v /\ v <= dataset.fMax
  /\ texOp' = [op |-> "Quantize", v |-> v,
               t |-> Truncated(v, dataset.fMin, dataset.fMax),
               iQuantizedVal |-> Quantize(v, dataset.fMin, dataset.fMax, ub)]
  /\ UNCHANGED <<regVars, extVars, cacheVars, lease, dataset, brick, vData>>

QuantNext == \E v \in QuantValues, ub \in UbModes : QuantizeSample(v, ub)

SpecQuantize == QuantInit /\ [][QuantNext]_vars

(***************************************************************************)
(* The staging buffers of an entry: LoadData fetches the brick into the    *)
(* upload hub or into the private vData; CreateTexture and Replace read    *)
(* the buffer that m_bUsingHub names.                                      *)
(***************************************************************************)
\* IOMan()->GetIncoresize(): a brick of up to four times as many bytes goes
\* through the hub
IncoreSize == 2

\* the bytes of a brick of dataset ds
BrickSize(ds, vSize) ==
  vSize[1] * vSize[2] * vSize[3] * (ds.iBitWidth \div 8) * ds.iCompCount

\* the buffer after Dataset::GetBrick has stored the bytes in it: the bytes
\* of the brick, and behind them what a longer buffer held before
Fetched_Into(buf, bytes) ==
  [k \in 1..(IF Len(buf) > Len(bytes) THEN Len(buf) ELSE Len(bytes)) |->
     IF k <= Len(bytes) THEN bytes[k] ELSE buf[k]]

\* what a read behind the end of a buffer may produce
UbReads == {"crash", "zero", "max"}

\* the n bytes read at the address of a buffer; bytes behind its end are
\* whatever the memory holds
RawView(buf, n, ubRead) ==
  [k \in 1..n |-> IF k <= Len(buf) THEN buf[k]
                  ELSE IF ubRead = "max" THEN 255 ELSE 0]

\* LoadData: the brick is fetched into the hub if the hub is not empty and
\* the brick has at most 4 * IncoreSize bytes, and then m_bUsingHub is set;
\* otherwise it is fetched into vData and m_bUsingHub is left as it was
LoadData(e, ds, hub, bFetched) ==
  LET vSize == BrickVoxelCounts(e.pDataset, e.m_Key)
      bytes == GetBrick(ds, vSize)
      bHub == hub # <<>> /\ BrickSize(ds, vSize) <= IncoreSize * 4 IN
  [ret |-> bFetched,
   intoHub |-> bHub,
   m_bUsingHub |-> bHub \/ e.m_bUsingHub,
   vUploadHub |-> IF bHub /\ bFetched THEN Fetched_Into(hub, bytes) ELSE hub,
   vData |-> IF ~bHub /\ bFetched THEN Fetched_Into(e.vData, bytes)
             ELSE e.vData]

\* the entry as the constructor's initialisers leave it: no texture yet, an
\* empty vData, m_bUsingHub false
NewElem(req, iIntraFrameCounter, iFrameCounter) ==
  [vData |-> <<>>, m_bUsingHub |-> FALSE]
    @@ [GLVolumeListElem(req, iIntraFrameCounter, iFrameCounter)
          EXCEPT !.volumes = <<>>]

\* the buffer CreateTexture and Replace read the brick from
StagingBuffer(e, hub) == IF e.m_bUsingHub THEN hub ELSE e.vData

\* the buffer after n bytes at its address were overwritten in place
WrittenBack(buf, raw) ==
  [k \in 1..Len(buf) |-> IF k <= Len(raw) THEN raw[k] ELSE buf[k]]

\* the result of a call that did nothing to the entry
NoUpload(e, hub) ==
  [ret |-> FALSE, e |-> e, hub |-> hub, fetched |-> <<>>, raw |-> <<>>,
   bOverrun |-> FALSE]

\* CreateTexture(vUploadHub, bDeleteOldTexture) on the entry e: the value
\* returned, the entry and the hub afterwards, the bytes fetched in this call
\* (<<>>: none), the bytes read as pRawData, and whether memory behind the
\* end of a buffer was read
CreateTextureCall(e, ds, hub, bDeleteOldTexture, outcome, ub, ubRead) ==
  LET e0 == IF bDeleteOldTexture THEN [e EXCEPT !.volumes = <<>>] ELSE e
      bLoad == e0.vData = <<>>
      ld == LoadData(e0, ds, hub, outcome # "loadfail")
      e1 == IF bLoad THEN [e0 EXCEPT !.m_bUsingHub = ld.m_bUsingHub,
                                     !.vData = ld.vData]
            ELSE e0
      hub1 == IF bLoad THEN ld.vUploadHub ELSE hub
      vSize == BrickVoxelCounts(e1.pDataset, e1.m_Key)
      buf == StagingBuffer(e1, hub1)
      pRawData == RawView(buf, BrickSize(ds, vSize), ubRead)
      r == CreateTextureFrom(pRawData, e1, ds,
                             IF outcome = "loadfail" THEN "ok" ELSE outcome,
                             ub) IN
  IF bLoad /\ ~ld.ret
  THEN [NoUpload(e1, hub1) EXCEPT !.fetched = <<>>]
  ELSE [ret |-> r.ret,
        e |-> [e1 EXCEPT !.vData = <<>>,
                         !.volumes = IF r.volumes = <<>> THEN e0.volumes
                                     ELSE r.volumes],
        hub |-> IF e1.m_bUsingHub THEN WrittenBack(hub1, r.raw) ELSE hub1,
        fetched |-> IF bLoad THEN GetBrick(ds, vSize) ELSE <<>>,
        raw |-> pRawData,
        bOverrun |-> BrickSize(ds, vSize) > Len(buf)]

\* the bytes a texture holds: its voxel counts times its element size
TextureBytes(tex) ==
  tex.vSize[1] * tex.vSize[2] * tex.vSize[3] * tex.iSizePerElement

\* GLVolume::SetData: the texture is specified again, with the sizes and the
\* layout it was created with, from the buffer; from a null pointer no data
\* is transferred
SetData(tex, pData, ubRead) ==
  [tex EXCEPT !.pData = IF pData = <<>> THEN <<>>
                        ELSE RawView(pData, TextureBytes(tex), ubRead)]

\* Replace on the entry e, with the dataset ds of the request: the fields
\* are assigned, the brick is fetched, padded with the bit width and the
\* component count of the dataset, and handed to the texture the entry has
ReplaceCall(e, ds, req, iIntraFrameCounter, iFrameCounter, hub, outcome, ubRead) ==
  LET e1 == Replace(e, req, iIntraFrameCounter, iFrameCounter, "loadfail")
      ld == LoadData(e1, ds, hub, outcome # "loadfail")
      e2 == [e1 EXCEPT !.m_bUsingHub = ld.m_bUsingHub, !.vData = ld.vData]
      vSize == BrickVoxelCounts(e2.pDataset, e2.m_Key)
      buf == StagingBuffer(e2, ld.vUploadHub)
      pRawData == RawView(buf, BrickSize(ds, vSize), ubRead)
      padded == PadData(pRawData, vSize, ds.iBitWidth, ds.iCompCount,
                        e2.m_bDisableBorder, outcome # "badalloc") IN
  IF Len(e.volumes) = 0 THEN NoUpload(e, hub)
  ELSE IF ~ld.ret THEN NoUpload(e2, ld.vUploadHub)
  ELSE [ret |-> outcome # "glerror",
        e |-> [e2 EXCEPT !.volumes[1] = SetData(@, padded.first, ubRead)],
        hub |-> ld.vUploadHub,
        fetched |-> GetBrick(ds, vSize),
        raw |-> pRawData,
        bOverrun |-> \/ BrickSize(ds, vSize) > Len(buf)
                     \/ /\ padded.first # <<>>
                        /\ TextureBytes(e2.volumes[1]) > Len(padded.first)]

(***************************************************************************)
(* SpecUpload: one entry is constructed, released, refilled by Replace and *)
(* given a new texture by CreateTexture                                    *)
(***************************************************************************)
\* what the two datasets report: dataset 1 holds bytes, dataset 2 bytes or
\* shorts of either byte order with one component, or bytes with two
\* components (a component count CreateTexture has no layout for)
UpDatasets ==
  {<<[iBitWidth |-> 8, iCompCount |-> 1, bSameEndianness |-> TRUE,
      fMin |-> 0, fMax |-> 65535, bytes |-> <<7, 9>>],
     [iBitWidth |-> s[1], iCompCount |-> s[3], bSameEndianness |-> s[2],
      fMin |-> 0, fMax |-> 65535, bytes |-> <<255, 128>>]>> :
     s \in {t \in {8, 16} \X BOOLEAN \X {1, 2} :
              t[3] = 2 => (t[1] = 8 /\ t[2])}}

\* the hub the manager passes: never filled, or of 4 * IncoreSize zero bytes
UpHubs == {<<>>, [k \in 1..(IncoreSize * 4) |-> 0]}

\* requests for bricks of 2 x 2 x 2 voxels of both datasets, for the brick of
\* 3 x 2 x 2 voxels of dataset 1 and the brick of 2 x 3 x 2 of dataset 2
UpRequests ==
  {Request(d[1], d[2], bPow2, b8Bit, FALSE, FALSE) :
     d \in {<<1, 1>>, <<1, 6>>, <<2, 1>>, <<2, 2>>, <<2, 4>>},
     bPow2 \in BOOLEAN, b8Bit \in BOOLEAN}

UpInit ==
  /\ RegInit /\ CacheIdle /\ SimpleIdle /\ LuaIdle /\ CtlIdle
  /\ lease = NoLease
  /\ dataset \in UpDatasets
  /\ brick = <<>>
  /\ vData = <<>>
  /\ texOp = NoTex
  /\ elem = <<>>
  /\ vUploadHub \in UpHubs
  /\ upOp = NoUp

\* the call has read behind a buffer and the process was terminated
Terminated(r, ubRead) == r.bOverrun /\ ubRead = "crash"

\* the request an entry is bound to
RequestOf(e) ==
  Request(e.pDataset, e.m_Key, e.m_bIsPaddedToPowerOfTwo,
          e.m_bIsDownsampledTo8Bits, e.m_bDisableBorder,
          e.m_bEmulate3DWith2DStacks)

\* the stamps passed to Replace, <<intra-frame counter, frame counter>>
UpStamps == {<<5, 2>>, <<1, 3>>}

\* what a call leaves behind: the entry, the hub and the record of the call
\* (the request and the stamps passed, the bytes fetched and read, and the
\* textures, the request and the user count of the entry before the call)
Uploaded(op, r, req, st, outcome, ubRead) ==
  /\ elem' = IF Terminated(r, ubRead) THEN elem ELSE r.e
  /\ vUploadHub' = IF Terminated(r, ubRead) THEN vUploadHub ELSE r.hub
  /\ upOp' = [op |-> IF Terminated(r, ubRead) THEN "terminated" ELSE op,
              ret |-> r.ret, outcome |-> outcome, req |-> req,
              fetched |-> r.fetched, raw |-> r.raw,
              st |-> st,
              pre |-> IF upOp.n = 0 THEN <<>> ELSE elem.volumes,
              was |-> IF upOp.n = 0 THEN <<>> ELSE RequestOf(elem),
              wasUsers |-> IF upOp.n = 0 THEN 0 ELSE elem.iUserCount,
              n |-> upOp.n + 1]
  /\ UNCHANGED <<regVars, cacheVars, texVars, simpleVars, lua, ctlVars>>

\* the constructor without the call of FreeTexture
ConstructKeepsTexture(req, outcome, ub, ubRead) ==
  LET r == CreateTextureCall(NewElem(req, 0, 2), dataset[req.pDataset],
                             vUploadHub, FALSE, outcome, ub, ubRead) IN
  /\ upOp.n = 0
  /\ Uploaded("GLVolumeListElem", r, req, <<0, 2>>, outcome, ubRead)

\* the constructor: CreateTexture on the new entry, and FreeTexture if it
\* returned false and left a texture
Construct(req, outcome, ub, ubRead) ==
  LET r == CreateTextureCall(NewElem(req, 0, 2), dataset[req.pDataset],
                             vUploadHub, FALSE, outcome, ub, ubRead) IN
  /\ upOp.n = 0
  /\ Uploaded("GLVolumeListElem",
              IF r.ret THEN r ELSE [r EXCEPT !.e.volumes = <<>>],
              req, <<0, 2>>, outcome, ubRead)

\* the brick is released by its user
ReleaseElem ==
  /\ upOp.n > 0 /\ upOp.op # "terminated"
  /\ elem.iUserCount > 0
  /\ elem' = [elem EXCEPT !.iUserCount = @ - 1]
  /\ upOp' = [upOp EXCEPT !.op = "Release"]
  /\ UNCHANGED <<regVars, cacheVars, texVars, vUploadHub, simpleVars, lua,
               ctlVars>>

\* the manager refills the entry for another request: the entry is a best
\* match for it (shape, flags, no user) and does not yet hold it
CallReplace(req, st, outcome, ubRead) ==
  /\ upOp.n > 0 /\ upOp.n < MaxCalls /\ upOp.op # "terminated"
  /\ ~Equals(elem, req)
  /\ Eligible(elem, BrickVoxelCounts(req.pDataset, req.key),
              req.bIsPaddedToPowerOfTwo, req.bIsDownsampledTo8Bits,
              req.bDisableBorder, req.bEmulate3DWith2DStacks)
  /\ Uploaded("Replace",
              ReplaceCall(elem, dataset[req.pDataset], req, st[1], st[2],
                          vUploadHub, outcome, ubRead),
              req, st, outcome, ubRead)

\* CreateTexture is called on the entry again
CallCreateTexture(bDeleteOldTexture, outcome, ub, ubRead) ==
  /\ upOp.n > 0 /\ upOp.n < MaxCalls /\ upOp.op # "terminated"
  /\ Uploaded("CreateTexture",
              CreateTextureCall(elem, dataset[elem.pDataset], vUploadHub,
                                bDeleteOldTexture, outcome, ub, ubRead),
              RequestOf(elem),
              <<elem.m_iIntraFrameCounter, elem.m_iFrameCounter>>,
              outcome, ubRead)

UpNext ==
  \/ \E req \in UpRequests, outcome \in CreateOutcomes, ub \in UbModes,
        ubRead \in UbReads : Construct(req, outcome, ub, ubRead)
  \/ ReleaseElem
  \/ \E req \in UpRequests, st \in UpStamps, outcome \in CreateOutcomes,
        ubRead \in UbReads : CallReplace(req, st, outcome, ubRead)
  \/ \E bDeleteOldTexture \in BOOLEAN, outcome \in CreateOutcomes,
        ub \in UbModes, ubRead \in UbReads :
       CallCreateTexture(bDeleteOldTexture, outcome, ub, ubRead)

SpecUpload == UpInit /\ [][UpNext]_vars

(***************************************************************************)
(* Simple texture cache of GPUMemMan: Load2DTextureFromFile / FreeTexture  *)
(***************************************************************************)
\* file names passed to Load2DTextureFromFile
TexFiles == {"a.bmp", "b.bmp"}
\* addresses of GLTexture2D objects; the objects are never deleted, so an
\* address is handed out once
TexIds == 1..MaxTextures

SimpleTextureListElem(iAccessCounter, pTexture, strFilename) ==
  [iAccessCounter |-> iAccessCounter, pTexture |-> pTexture,
   strFilename |-> strFilename]

\* the index of the first entry that satisfies the test of a search loop, 0
\* if the loop runs to the end
FirstWithFilename(list, strFilename) ==
  IF \E i \in 1..Len(list) : list[i].strFilename = strFilename
  THEN Min({i \in 1..Len(list) : list[i].strFilename = strFilename})
  ELSE 0

FirstWithTexture(list, pTexture) ==
  IF \E i \in 1..Len(list) : list[i].pTexture = pTexture
  THEN Min({i \in 1..Len(list) : list[i].pTexture = pTexture})
  ELSE 0

\* a load that reuses a texture without counting the access
Load2DTextureFromFileNoCount(list, strFilename, bLoaded, addr) ==
  LET i == FirstWithFilename(list, strFilename) IN
  IF i # 0 THEN list
  ELSE IF ~bLoaded THEN list
  ELSE Append(list, SimpleTextureListElem(1, addr, strFilename))

\* Load2DTextureFromFile: the list after the call; bLoaded is the result of
\* BMPLoader::Load, addr the address of the new GLTexture2D
Load2DTextureFromFile(list, strFilename, bLoaded, addr) ==
  LET i == FirstWithFilename(list, strFilename) IN
  IF i # 0 THEN [list EXCEPT ![i].iAccessCounter = @ + 1]
  ELSE IF ~bLoaded THEN list
  ELSE Append(list, SimpleTextureListElem(1, addr, strFilename))

\* the value Load2DTextureFromFile returns
Load2DTextureRet(list, strFilename, bLoaded, addr) ==
  LET i == FirstWithFilename(list, strFilename) IN
  IF i # 0 THEN list[i].pTexture
  ELSE IF ~bLoaded THEN NULL ELSE addr

\* a FreeTexture that keeps the entry whose counter has reached 0
FreeTextureKeepsEntry(list, pTexture) ==
  LET i == FirstWithTexture(list, pTexture) IN
  IF i = 0 THEN list
  ELSE IF list[i].iAccessCounter - 1 <= 0
  THEN [list EXCEPT ![i].iAccessCounter = 0]
  ELSE [list EXCEPT ![i].iAccessCounter = @ - 1]

\* FreeTexture: the list after the call
FreeTexture(list, pTexture) ==
  LET i == FirstWithTexture(list, pTexture) IN
  IF i = 0 THEN list
  ELSE IF list[i].iAccessCounter - 1 = 0 THEN Erase(list, i)
  ELSE [list EXCEPT ![i].iAccessCounter = @ - 1]

\* the texture FreeTexture calls Delete() on (NULL: none)
FreeTextureDeleted(list, pTexture) ==
  LET i == FirstWithTexture(list, pTexture) IN
  IF i # 0 /\ list[i].iAccessCounter - 1 = 0 THEN pTexture ELSE NULL

\* a FreeTexture that reports nothing
FreeTextureMsgSilent(list, pTexture) ==
  LET i == FirstWithTexture(list, pTexture) IN
  IF i = 0 THEN ""
  ELSE IF list[i].iAccessCounter - 1 = 0 THEN "Deleted texture"
  ELSE "Decreased access count"

\* the message FreeTexture hands to DebugOut
FreeTextureMsg(list, pTexture) ==
  LET i == FirstWithTexture(list, pTexture) IN
  IF i = 0 THEN "Texture not found"
  ELSE IF list[i].iAccessCounter - 1 = 0 THEN "Deleted texture"
  ELSE "Decreased access count"

(***************************************************************************)
(* SpecSimple: arbitrary loads and frees of simple textures.  simpleOp     *)
(* records the call and counts, per texture, the loads that returned it    *)
(* and the frees made for these loads.                                     *)
(***************************************************************************)
SimpleInit ==
  /\ RegInit /\ CacheIdle /\ TexIdle /\ UpIdle /\ LuaIdle /\ CtlIdle
  /\ m_vpSimpleTextures = <<>>
  /\ simpleOp = [NoSimple EXCEPT !.nLoad = [a \in TexIds |-> 0],
                                 !.nFree = [a \in TexIds |-> 0]]

\* the number of GLTexture2D objects created so far
TexturesMade == Cardinality({a \in TexIds : simpleOp.nLoad[a] > 0})

CallLoad2DTexture(strFilename, bLoaded) ==
  LET addr == TexturesMade + 1
      i == FirstWithFilename(m_vpSimpleTextures, strFilename)
      ret == Load2DTextureRet(m_vpSimpleTextures, strFilename, bLoaded, addr) IN
  /\ IF i # 0
     THEN simpleOp.nLoad[m_vpSimpleTextures[i].pTexture] < MaxTexUsers
     ELSE addr \in TexIds
  /\ m_vpSimpleTextures' =
       Load2DTextureFromFile(m_vpSimpleTextures, strFilename, bLoaded, addr)
  /\ simpleOp' = [simpleOp EXCEPT
                    !.op = "Load2DTextureFromFile", !.file = strFilename,
                    !.tex = NULL, !.ret = ret, !.msg = "",
                    !.pre = m_vpSimpleTextures,
                    !.nLoad = IF ret = NULL THEN @
                              ELSE [@ EXCEPT ![ret] = @ + 1]]
  /\ UNCHANGED <<regVars, cacheVars, texVars, upVars, lua, ctlVars>>

\* FreeTexture(pTexture); the call is made for one of the loads that returned
\* pTexture if fewer frees than loads were made for it so far
CallFreeTexture(pTexture) ==
  LET gone == FreeTextureDeleted(m_vpSimpleTextures, pTexture) IN
  /\ m_vpSimpleTextures' = FreeTexture(m_vpSimpleTextures, pTexture)
  /\ simpleOp' = [simpleOp EXCEPT
                    !.op = "FreeTexture", !.file = "", !.tex = pTexture,
                    !.ret = NULL,
                    !.msg = FreeTextureMsg(m_vpSimpleTextures, pTexture),
                    !.pre = m_vpSimpleTextures,
                    !.nFree = IF pTexture \in TexIds
                                 /\ @[pTexture] < simpleOp.nLoad[pTexture]
                              THEN [@ EXCEPT ![pTexture] = @ + 1] ELSE @,
                    !.deleted = IF gone = NULL THEN @ ELSE @ \cup {gone}]
  /\ UNCHANGED <<regVars, cacheVars, texVars, upVars, lua, ctlVars>>

SimpleNext ==
  \/ \E f \in TexFiles, ok \in BOOLEAN : CallLoad2DTexture(f, ok)
  \/ \E t \in TexIds \cup {NULL} : CallFreeTexture(t)

SpecSimple == SimpleInit /\ [][SimpleNext]_vars

(***************************************************************************)
(* LuaScripting::LuaCallback::exec: one call of a registered function from *)
(* Lua.  lua.trace is the sequence of the calls exec has made so far; the  *)
(* bound function and the hooks are named by numbers.                      *)
(***************************************************************************)
\* the bound function of the closure that is called from Lua
BoundFun == 0
\* the hook closures strictHook can attach to the function
HookNames == 1..MaxHooks

\* a call made by exec: what was called, and for which closure
Event(ev, who) == [ev |-> ev, who |-> who]

\* the registered function: its hooks, whether its return type is void
\* (LuaCallback<FunPtr, void>), and what doProvenanceFromExec returns for it
LuaFunctions ==
  [hooks : SUBSET HookNames, bVoid : BOOLEAN, provExempt : BOOLEAN]

LuaInit ==
  /\ RegInit /\ CacheIdle /\ TexIdle /\ UpIdle /\ SimpleIdle /\ CtlIdle
  /\ \E fun \in LuaFunctions :
        lua = [fun |-> fun, pc |-> "exec", left |-> {}, trace |-> <<>>,
               bThrown |-> FALSE]

\* the closure is not a hook (upvalue 2 is false): provenance is invoked
ExecProvenance ==
  /\ lua.pc = "exec"
  /\ lua' = [lua EXCEPT !.pc = "provenance",
                        !.trace = Append(@, Event("doProvenanceFromExec", BoundFun))]
  /\ UNCHANGED <<regVars, cacheVars, texVars, upVars, simpleVars, ctlVars>>

ExecBeginCommand ==
  /\ lua.pc = "provenance"
  /\ lua' = [lua EXCEPT !.pc = "begun",
                        !.trace = Append(@, Event("beginCommand", BoundFun))]
  /\ UNCHANGED <<regVars, cacheVars, texVars, upVars, simpleVars, ctlVars>>

\* LuaCFunExec::run calls the bound function, which returns or throws
ExecRun(bThrows) ==
  /\ lua.pc = "begun"
  /\ lua' = [lua EXCEPT !.pc = IF bThrows THEN "thrown" ELSE "ran",
                        !.bThrown = bThrows,
                        !.trace = Append(@, Event("run", BoundFun))]
  /\ UNCHANGED <<regVars, cacheVars, texVars, upVars, simpleVars, ctlVars>>

\* a handler that goes on to the hooks instead of throwing again
CaughtCallsHooks(l) ==
  [l EXCEPT !.pc = "hooks", !.left = l.fun.hooks,
            !.trace = @ \o <<Event("endCommand", BoundFun),
                             Event("logExecFailure", BoundFun)>>]

\* the catch handlers: endCommand and logExecFailure (in this order for a
\* value-returning function, in the other for a void one), then throw
Caught(l) ==
  [l EXCEPT !.pc = "unwound",
            !.trace = @ \o (IF l.fun.bVoid
                            THEN <<Event("logExecFailure", BoundFun),
                                   Event("endCommand", BoundFun)>>
                            ELSE <<Event("endCommand", BoundFun),
                                   Event("logExecFailure", BoundFun)>>)]

ExecCatch ==
  /\ lua.pc = "thrown"
  /\ lua' = Caught(lua)
  /\ UNCHANGED <<regVars, cacheVars, texVars, upVars, simpleVars, ctlVars>>

\* the bound function has returned: endCommand, then doHooks is entered
ExecEndCommand ==
  /\ lua.pc = "ran"
  /\ lua' = [lua EXCEPT !.pc = "hooks", !.left = lua.fun.hooks,
                        !.trace = Append(@, Event("endCommand", BoundFun))]
  /\ UNCHANGED <<regVars, cacheVars, texVars, upVars, simpleVars, ctlVars>>

\* the calls exec makes for a closure that is a hook (upvalue 2 is true):
\* LuaCFunExec::run on the hooked function and nothing else
HookExec(h) == <<Event("run", h)>>

\* doHooks calls one more closure of the hook table
DoHooks(h) ==
  /\ lua.pc = "hooks"
  /\ h \in lua.left
  /\ lua' = [lua EXCEPT !.left = @ \ {h}, !.trace = @ \o HookExec(h)]
  /\ UNCHANGED <<regVars, cacheVars, texVars, upVars, simpleVars, ctlVars>>

\* doHooks has returned: the return value, if there is one, is pushed
ExecPush ==
  /\ lua.pc = "hooks"
  /\ lua.left = {}
  /\ lua' = [lua EXCEPT !.pc = "returned",
                        !.trace = IF lua.fun.bVoid THEN @
                                  ELSE Append(@, Event("push", BoundFun))]
  /\ UNCHANGED <<regVars, cacheVars, texVars, upVars, simpleVars, ctlVars>>

LuaNext ==
  \/ ExecProvenance
  \/ ExecBeginCommand
  \/ \E bThrows \in BOOLEAN : ExecRun(bThrows)
  \/ ExecCatch
  \/ ExecEndCommand
  \/ \E h \in HookNames : DoHooks(h)
  \/ ExecPush

SpecLua == LuaInit /\ [][LuaNext]_vars

(***************************************************************************)
(* Properties of the best-match search                                     *)
(***************************************************************************)
\* the brick the entry is bound to has the voxel counts of the requested one
SameShape(e, req) ==
  BrickVoxelCounts(e.pDataset, e.m_Key) = BrickVoxelCounts(req.pDataset, req.key)

\* the four format flags of the entry are those of the request
SameFlags(e, req) ==
  /\ e.m_bIsPaddedToPowerOfTwo = req.bIsPaddedToPowerOfTwo
  /\ e.m_bIsDownsampledTo8Bits = req.bIsDownsampledTo8Bits
  /\ e.m_bDisableBorder = req.bDisableBorder
  /\ e.m_bEmulate3DWith2DStacks = req.bEmulate3DWith2DStacks

\* the positions of the list that qualify for the request
Candidates(list, req) ==
  {j \in 1..Len(list) : /\ SameShape(list[j], req)
                        /\ SameFlags(list[j], req)
                        /\ list[j].iUserCount = 0}

\* C6: a best-match scan never selects an entry whose user count is above 0,
\* and an entry whose brick was replaced after a scan had no user.
C6_ReplacedWasUnused ==
  /\ \A req \in CacheRequests :
        BestMatchScan(volumeList, req) # 0
        => volumeList[BestMatchScan(volumeList, req)].iUserCount = 0
  /\ lastOp.op = "Replace" => volumeList[lastOp.idx].iUserCount = 0

\* a brick was replaced while another entry of the same shape was in use
C6_Witness ==
  /\ lastOp.op = "Replace"
  /\ \E j \in 1..Len(volumeList) :
        /\ j # lastOp.idx
        /\ volumeList[j].iUserCount > 0
        /\ SameShape(volumeList[j], lastOp.req)

\* C7: among the candidates that have the frame counter of the selected
\* entry, the scan selects one with the smallest intra-frame counter.
C7_SmallestIntraSelected ==
  (lastOp.op = "BestMatch" /\ lastOp.idx # 0)
  => \A j \in Candidates(volumeList, lastOp.req) :
        volumeList[j].m_iFrameCounter = volumeList[lastOp.idx].m_iFrameCounter
        => volumeList[lastOp.idx].m_iIntraFrameCounter
             <= volumeList[j].m_iIntraFrameCounter

\* C8: a scan finds a candidate whenever one exists, and the entry it ends
\* with is a candidate whose frame counter is the smallest of all candidates,
\* in whatever order the entries are listed.
C8_OldestFrameSelected ==
  lastOp.op = "BestMatch"
  => /\ lastOp.idx # 0 <=> Candidates(volumeList, lastOp.req) # {}
     /\ lastOp.idx # 0
        => /\ lastOp.idx \in Candidates(volumeList, lastOp.req)
           /\ \A j \in Candidates(volumeList, lastOp.req) :
                 volumeList[lastOp.idx].m_iFrameCounter
                   <= volumeList[j].m_iFrameCounter

\* the scan passed over an older entry in use and a newer candidate listed
\* before the one it selected
C8_Witness ==
  /\ lastOp.op = "BestMatch" /\ lastOp.idx = 3
  /\ volumeList[1].iUserCount = 0
  /\ volumeList[1].m_iFrameCounter > volumeList[3].m_iFrameCounter
  /\ volumeList[2].iUserCount > 0
  /\ volumeList[2].m_iFrameCounter = volumeList[3].m_iFrameCounter

\* C9: an entry BestMatch accepts has the requested voxel counts in all three
\* dimensions and the requested value of each of the four format flags.
C9_AcceptedMatchesShapeAndFlags ==
  (lastOp.op = "BestMatch" /\ lastOp.idx # 0)
  => /\ \A i \in 1..3 :
           BrickVoxelCounts(volumeList[lastOp.idx].pDataset,
                            volumeList[lastOp.idx].m_Key)[i]
             = BrickVoxelCounts(lastOp.req.pDataset, lastOp.req.key)[i]
     /\ SameFlags(volumeList[lastOp.idx], lastOp.req)

\* an entry was accepted for another brick, with two of the flags set
C9_Witness ==
  /\ lastOp.op = "BestMatch" /\ lastOp.idx = 1
  /\ lastOp.req.key # volumeList[1].m_Key
  /\ lastOp.req.bIsDownsampledTo8Bits /\ lastOp.req.bDisableBorder

\* C11: Access adds exactly 1 to the user count of the entry, sets its two
\* stamps to the pair passed by the caller, returns the GPU resource the entry
\* held, and leaves the dataset, the key, the four flags and the resource of
\* the entry as they were.
C11_AccessEffect ==
  lastOp.op = "Access"
  => LET old == lastOp.was
         new == volumeList[lastOp.idx] IN
     /\ new.iUserCount = old.iUserCount + 1
     /\ new.m_iIntraFrameCounter = lastOp.req[1]
     /\ new.m_iFrameCounter = lastOp.req[2]
     /\ lastOp.ret = old.volumes[1]
     /\ new.pDataset = old.pDataset
     /\ new.m_Key = old.m_Key
     /\ new.m_bIsPaddedToPowerOfTwo = old.m_bIsPaddedToPowerOfTwo
     /\ new.m_bIsDownsampledTo8Bits = old.m_bIsDownsampledTo8Bits
     /\ new.m_bDisableBorder = old.m_bDisableBorder
     /\ new.m_bEmulate3DWith2DStacks = old.m_bEmulate3DWith2DStacks
     /\ new.volumes = old.volumes

\* an entry that had a user was accessed with stamps other than its own
C11_Witness ==
  /\ lastOp.op = "Access"
  /\ lastOp.was.iUserCount = 1
  /\ lastOp.req[1] # lastOp.was.m_iIntraFrameCounter
  /\ lastOp.req[2] # lastOp.was.m_iFrameCounter
  /\ volumeList[1].iUserCount = 2

\* C12: when the N >= 1 requests made for a brick are followed by N releases,
\* the user count of its entry is 0 and a best-match search for another brick
\* of the same voxel counts and flags returns the entry.
C12_ReleasedEntryEligible ==
  (lease.nAccess >= 1 /\ lease.nFree = lease.nAccess)
  => /\ volumeList[1].iUserCount = 0
     /\ (lastOp.op = "BestMatch" /\ SameShape(volumeList[1], lastOp.req)
                                 /\ SameFlags(volumeList[1], lastOp.req))
        => lastOp.idx = 1

\* a brick was requested more than once, released as often, and then found
\* by the search for another brick
C12_Witness ==
  /\ lease.nAccess >= 2 /\ lease.nFree = lease.nAccess
  /\ lastOp.op = "BestMatch" /\ lastOp.idx = 1
  /\ lastOp.req.key # volumeList[1].m_Key

ElementAt(buf, vDims, iElementSize, x, y, z) ==
  [b \in 1..iElementSize |->
     buf[((z * vDims[2] + y) * vDims[1] + x) * iElementSize + b]]

\* the nearest coordinate inside 0..n-1
Clamp(c, n) == IF c >= n THEN n - 1 ELSE c

\* PadData has returned a buffer
Padded == texOp.op = "PadData" /\ texOp.padded.first # <<>>

\* the coordinates of the padded buffer that lie beyond the source bounds
BeyondBounds ==
  {c \in (0..(texOp.padded.second[1] - 1)) \X (0..(texOp.padded.second[2] - 1))
         \X (0..(texOp.padded.second[3] - 1)) :
     c[1] >= brick.vSize[1] \/ c[2] >= brick.vSize[2] \/ c[3] >= brick.vSize[3]}

\* the element of the padded buffer at c
PaddedElement(c) ==
  ElementAt(texOp.padded.first, texOp.padded.second,
            (brick.iBitWidth \div 8) * brick.iCompCount, c[1], c[2], c[3])

\* the source element nearest to c
NearestSource(c) ==
  ElementAt(vData, brick.vSize, (brick.iBitWidth \div 8) * brick.iCompCount,
            Clamp(c[1], brick.vSize[1]), Clamp(c[2], brick.vSize[2]),
            Clamp(c[3], brick.vSize[3]))

\* C18 as claimed: with the border enabled every padded voxel beyond the
\* source bounds equals the nearest in-bounds voxel, at every distance.
C18_BorderAtEveryDistance ==
  (Padded /\ ~brick.m_bDisableBorder)
  => \A c \in BeyondBounds : PaddedElement(c) = NearestSource(c)

\* C18: with the border enabled, a padded voxel that is at most one step
\* beyond the source bounds on every axis equals the nearest in-bounds voxel,
\* and a voxel two or more steps beyond the bounds on some axis is zero.
C18_BorderOneStep ==
  (Padded /\ ~brick.m_bDisableBorder)
  => \A c \in BeyondBounds :
        IF \A i \in 1..3 : c[i] <= brick.vSize[i]
        THEN PaddedElement(c) = NearestSource(c)
        ELSE \A b \in DOMAIN PaddedElement(c) : PaddedElement(c)[b] = 0

\* a brick of x size 5 and two-byte elements was padded to 8 with the border
\* enabled, on y and z as well
C18_Witness ==
  /\ Padded /\ ~brick.m_bDisableBorder
  /\ brick.vSize = <<5, 3, 3>> /\ brick.iBitWidth = 16
  /\ texOp.padded.second = <<8, 4, 4>>

\* C19: the buffer PadData returns has NextPow2(x) * NextPow2(y) * NextPow2(z)
\* elements, and the element at every in-bounds coordinate of its row-major
\* layout is the source element at that coordinate.
C19_PaddedHoldsSource ==
  Padded
  => /\ texOp.padded.second = <<NextPow2(brick.vSize[1]),
                                NextPow2(brick.vSize[2]),
                                NextPow2(brick.vSize[3])>>
     /\ Len(texOp.padded.first)
          = NextPow2(brick.vSize[1]) * NextPow2(brick.vSize[2])
            * NextPow2(brick.vSize[3])
            * ((brick.iBitWidth \div 8) * brick.iCompCount)
     /\ \A x \in 0..(brick.vSize[1] - 1), y \in 0..(brick.vSize[2] - 1),
           z \in 0..(brick.vSize[3] - 1) :
           ElementAt(texOp.padded.first, texOp.padded.second,
                     (brick.iBitWidth \div 8) * brick.iCompCount, x, y, z)
             = ElementAt(vData, brick.vSize,
                         (brick.iBitWidth \div 8) * brick.iCompCount, x, y, z)

\* a brick that is padded on all three axes was padded
C19_Witness ==
  /\ Padded
  /\ brick.vSize = <<3, 3, 3>> /\ brick.iBitWidth = 16
  /\ Len(texOp.padded.first) = 128

\* C20: for a brick whose three sizes are powers of two PadData returns a
\* buffer of the size and the content of the input, with the border enabled
\* and with the border disabled.
C20_IdentityOnPow2 ==
  (Padded /\ \A i \in 1..3 : IsPow2(brick.vSize[i]))
  => /\ texOp.padded.second = brick.vSize
     /\ Len(texOp.padded.first) = Len(vData)
     /\ \A k \in 1..Len(vData) : texOp.padded.first[k] = vData[k]

\* a brick of size 4 x 2 x 2 went through PadData with the border enabled
C20_Witness ==
  /\ Padded /\ ~brick.m_bDisableBorder
  /\ brick.vSize = <<4, 2, 2>>
  /\ Len(texOp.padded.first) = Len(vData)

\* C21: with the border disabled every element of the padded buffer that lies
\* beyond the source bounds on some axis consists of zero bytes.
C21_HardEdgeIsZero ==
  (Padded /\ brick.m_bDisableBorder)
  => \A c \in BeyondBounds :
        \A b \in DOMAIN PaddedElement(c) : PaddedElement(c)[b] = 0

\* a brick that is padded on all three axes was padded with the border
\* disabled; none of its source bytes is zero
C21_Witness ==
  /\ Padded /\ brick.m_bDisableBorder
  /\ brick.vSize = <<3, 3, 3>> /\ brick.iBitWidth = 16
  /\ texOp.padded.second = <<4, 4, 4>>
  /\ \A k \in 1..Len(vData) : vData[k] # 0

(***************************************************************************)
(* Properties of CreateTexture and of a brick request                      *)
(***************************************************************************)
\* the bit width after the optional quantization
EffectiveBitWidth ==
  IF texOp.req.bIsDownsampledTo8Bits /\ dataset.iBitWidth # 8
  THEN 8 ELSE dataset.iBitWidth

\* the combinations the layout table has no entry for
UnsupportedShape ==
  \/ dataset.iCompCount \notin {1, 3, 4}
  \/ EffectiveBitWidth \notin {8, 16, 32}
  \/ texOp.req.bIsDownsampledTo8Bits /\ dataset.iBitWidth \notin {8, 16}

\* the table: channels by component count, sample type by bit width
ChannelsOf(iCompCount) ==
  CASE iCompCount = 1 -> "GL_LUMINANCE"
    [] iCompCount = 3 -> "GL_RGB"
    [] iCompCount = 4 -> "GL_RGBA"
    [] OTHER -> "none"

SampleTypeOf(iBitWidth) ==
  CASE iBitWidth = 8 -> "GL_UNSIGNED_BYTE"
    [] iBitWidth = 16 -> "GL_UNSIGNED_SHORT"
    [] iBitWidth = 32 -> "GL_FLOAT"
    [] OTHER -> "none"

\* the bytes the dataset delivered for the requested brick
Fetched ==
  GetBrick(dataset, BrickVoxelCounts(texOp.req.pDataset, texOp.req.key))

\* the number of samples of the requested brick
Samples ==
  LET vSize == BrickVoxelCounts(texOp.req.pDataset, texOp.req.key) IN
  vSize[1] * vSize[2] * vSize[3] * dataset.iCompCount

\* CreateTexture built a texture of the size of the brick, without padding
CreatedUnpadded ==
  /\ texOp.op = "CreateTexture"
  /\ texOp.created # <<>>
  /\ texOp.created[1].vSize
       = BrickVoxelCounts(texOp.req.pDataset, texOp.req.key)

C15_FloatSingleChannelOnly ==
  (/\ texOp.op = "CreateTexture"
   /\ EffectiveBitWidth = 32
   /\ dataset.iCompCount \in {3, 4})
  => (~texOp.ret /\ texOp.created = <<>>)

\* C16: with downsampleTo8Bit on 16-bit data of the host's byte order, every
\* sample v is uploaded as floor(255 * (v - min) / (max - min)).
C16_QuantizationFormula ==
  (/\ CreatedUnpadded
   /\ texOp.req.bIsDownsampledTo8Bits
   /\ dataset.iBitWidth = 16
   /\ dataset.bSameEndianness)
  => \A k \in 1..Samples :
        texOp.created[1].pData[k]
          = (255 * (HostShort(Fetched[2 * k - 1], Fetched[2 * k])
                    - dataset.fMin))
            \div (dataset.fMax - dataset.fMin)

\* byte k of the brick after the bytes of every element of w bytes are reversed
Reversed(buf, w, k) ==
  buf[((k - 1) \div w) * w + (w - 1 - ((k - 1) % w)) + 1]

\* C17: for a dataset of the other byte order, the texture holds the elements
\* with their bytes reversed (16 and 32 bit), or the quantization of the
\* samples with their bytes reversed (16 bit downsampled to 8 bit).
C17_SwappedOnce ==
  (/\ CreatedUnpadded
   /\ ~dataset.bSameEndianness
   /\ dataset.iBitWidth \in {16, 32})
  => IF EffectiveBitWidth = 8
     THEN \A k \in 1..Samples :
            \E ub \in UbModes :
               texOp.created[1].pData[k]
                 = Quantize(HostShort(Fetched[2 * k], Fetched[2 * k - 1]),
                            dataset.fMin, dataset.fMax, ub)
     ELSE \A k \in 1..Len(texOp.created[1].pData) :
            texOp.created[1].pData[k]
              = Reversed(Fetched, dataset.iBitWidth \div 8, k)

\* C36 as claimed: for a range with 0 <= min < max <= 65535 and a sample
\* in it, the value the quantization hands to the conversion to unsigned
\* char truncates to a value in 0..255.
C36_QuantizedFitsByte ==
  texOp.op = "Quantize" => texOp.t \in 0..255

(***************************************************************************)
(* Properties of the staging buffers and of Replace                        *)
(***************************************************************************)
\* a call that fetches, pads or uploads was made on the entry
UploadCalls == {"GLVolumeListElem", "CreateTexture", "Replace"}

\* the last call has handed the brick to PadData: Replace always does,
\* CreateTexture if padding is requested and a voxel count is no power of two
PadDataCalled ==
  /\ upOp.op \in UploadCalls
  /\ upOp.raw # <<>>
  /\ \/ upOp.op = "Replace"
     \/ /\ upOp.req.bIsPaddedToPowerOfTwo
        /\ \E i \in 1..3 :
              ~IsPow2(BrickVoxelCounts(upOp.req.pDataset, upOp.req.key)[i])

\* C22 as claimed: when the allocation of the padded buffer fails, the call
\* that asked for the padding returns false and the entry holds the textures
\* it held before, with their content.
C22_PadAllocFailureReported ==
  (PadDataCalled /\ upOp.outcome = "badalloc")
  => (~upOp.ret /\ elem.volumes = upOp.pre)

\* C23 as claimed: after every call that uploaded and returned true the
\* private staging buffer vData of the entry is empty.
C23_StagingEmptyAfterUpload ==
  (upOp.op \in UploadCalls /\ upOp.ret) => elem.vData = <<>>

\* C24 as claimed: the bytes a call reads as raw brick data are the bytes it
\* has fetched in that same call, whether the brick went through the hub or
\* through vData.
C24_UploadsWhatWasFetched ==
  (upOp.op \in UploadCalls /\ upOp.raw # <<>>) => upOp.raw = upOp.fetched

\* the texture content a fresh CreateTexture uploads for a request
FreshContent(req) ==
  LET r == CreateTexture(GLVolumeListElem(req, 0, 2), dataset[req.pDataset],
                         "ok", "wrap") IN
  IF r.volumes = <<>> THEN <<>> ELSE r.volumes[1].pData

\* C28 as claimed: after a successful Replace the texture of the entry holds
\* what a fresh CreateTexture uploads for the same request.
C28_ReplaceUploadsAsCreate ==
  (upOp.op = "Replace" /\ upOp.ret /\ upOp.outcome = "ok")
  => elem.volumes[1].pData = FreshContent(upOp.req)

\* C29: after a successful Replace the entry Equals the request of the call
\* and no other request, the request it was bound to included; its stamps
\* are the ones passed and its user count is the one it had before.
C29_ReplaceRebindsEntry ==
  (upOp.op = "Replace" /\ upOp.ret)
  => /\ Equals(elem, upOp.req)
     /\ \A r \in UpRequests : r # upOp.req => ~Equals(elem, r)
     /\ ~Equals(elem, upOp.was)
     /\ elem.m_iIntraFrameCounter = upOp.st[1]
     /\ elem.m_iFrameCounter = upOp.st[2]
     /\ elem.iUserCount = upOp.wasUsers

\* an entry of dataset 1 was refilled with a brick of dataset 2 at new stamps
C29_Witness ==
  /\ upOp.op = "Replace" /\ upOp.ret
  /\ upOp.was.pDataset = 1 /\ upOp.req.pDataset = 2
  /\ upOp.st = <<1, 3>>
  /\ elem.m_Key = upOp.req.key

\* C30 as claimed: after a Replace that returned false the entry does not
\* Equal the request of the call.
C30_FailedReplaceKeepsBinding ==
  (upOp.op = "Replace" /\ ~upOp.ret) => ~Equals(elem, upOp.req)

C33_UsersAreASet ==
  \A i \in 1..Len(m_vpVolumeDatasets) :
     \A j, k \in 1..Len(m_vpVolumeDatasets[i].qpUser) :
        m_vpVolumeDatasets[i].qpUser[j] = m_vpVolumeDatasets[i].qpUser[k]
        => j = k

(***************************************************************************)
(* Properties of the renderers                                             *)
(***************************************************************************)
\* C32 as claimed: when the manager's LoadDataset returned NULL, the
\* renderer's LoadDataset returns false and the transfer-function lists of
\* the manager are what they were before the call.
C32_FailedLoadHasNoSideEffects ==
  (ren # <<>> /\ ren.op.op = "LoadDataset" /\ ren.op.mgr = NULL)
  => /\ ren.op.done /\ ~ren.op.ret
     /\ ren.m_vpTrans1DList = ren.op.pre1D
     /\ ren.m_vpTrans2DList = ren.op.pre2D

\* the manager still holds the renderer as a user of some dataset
StillUser(r) ==
  \E i \in 1..Len(m_vpVolumeDatasets) :
     \E j \in 1..Len(m_vpVolumeDatasets[i].qpUser) :
        m_vpVolumeDatasets[i].qpUser[j] = r

\* the manager still holds a transfer function of the renderer
StillOwner(r) ==
  \/ \E i \in 1..Len(ren.m_vpTrans1DList) :
        ren.m_vpTrans1DList[i].requester = r
  \/ \E i \in 1..Len(ren.m_vpTrans2DList) :
        ren.m_vpTrans2DList[i].requester = r

\* C34 as claimed: while the manager exists, a renderer that was deleted by
\* ReleaseVolumerenderer or by the controller's destructor is a user of no
\* dataset and owns no entry of the transfer-function lists.
C34_ReleasedRendererForgotten ==
  (ren # <<>> /\ ren.phase # "gone")
  => \A r \in ren.released : ~StillUser(r) /\ ~StillOwner(r)

(***************************************************************************)
(* Properties of the debug output                                          *)
(***************************************************************************)
\* C37 as claimed: the current debug output is non-null and not deleted;
\* SetDebugOut(NULL) keeps the old one; RemoveDebugOut of the current one
\* installs a new console the controller owns; RemoveDebugOut of another one
\* changes nothing; SetDebugOut of the current one does not delete it.
C37_DebugOutAlwaysValid ==
  dbg # <<>> =>
    /\ dbg.m_pDebugOut # NULL
    /\ dbg.m_pDebugOut \notin dbg.deleted
    /\ (dbg.op.op = "SetDebugOut" /\ dbg.op.arg = NULL)
       => /\ dbg.m_pDebugOut = dbg.op.prev
          /\ dbg.deleted = dbg.op.wasDeleted
    /\ (dbg.op.op = "RemoveDebugOut" /\ dbg.op.arg = dbg.op.prev)
       => /\ dbg.m_pDebugOut = ConsoleOut(dbg.nConsoles)
          /\ dbg.m_pDebugOut # dbg.op.prev
          /\ dbg.m_bDeleteDebugOutOnExit
    /\ (dbg.op.op = "RemoveDebugOut" /\ dbg.op.arg # dbg.op.prev)
       => /\ dbg.m_pDebugOut = dbg.op.prev
          /\ dbg.m_bDeleteDebugOutOnExit = dbg.op.wasOwned
          /\ dbg.deleted = dbg.op.wasDeleted
    /\ (dbg.op.op = "SetDebugOut" /\ dbg.op.arg = dbg.op.prev)
       => dbg.op.arg \notin dbg.deleted

\* C38 as claimed: after setDefaults has returned or was left by an
\* exception the temporary provenance switch is off again, and the call made
\* by setDefaults has added nothing to the provenance log.
C38_SetDefaultsRestoresProvenance ==
  lua.op.op = "setDefaults"
  => (~lua.bDisableProvTemporarily /\ lua.log = lua.op.preLog)

(***************************************************************************)
(* Properties of the simple texture cache                                  *)
(***************************************************************************)
\* the texture is in the simple-texture list
Listed(list, pTexture) == \E i \in 1..Len(list) : list[i].pTexture = pTexture

\* C25: a texture that k loads of its file have returned is in the list as
\* long as fewer than k FreeTexture calls were made for it, and is destroyed
\* and out of the list once the k-th was made.
C25_DestroyedByLastFree ==
  \A t \in TexIds :
     simpleOp.nLoad[t] > 0
     => IF simpleOp.nFree[t] < simpleOp.nLoad[t]
        THEN Listed(m_vpSimpleTextures, t) /\ t \notin simpleOp.deleted
        ELSE ~Listed(m_vpSimpleTextures, t) /\ t \in simpleOp.deleted

\* the third FreeTexture call for a texture that three loads have returned
\* has removed it
C25_Witness ==
  /\ simpleOp.op = "FreeTexture" /\ simpleOp.tex \in TexIds
  /\ simpleOp.nLoad[simpleOp.tex] = 3 /\ simpleOp.nFree[simpleOp.tex] = 3
  /\ Listed(simpleOp.pre, simpleOp.tex)
  /\ ~Listed(m_vpSimpleTextures, simpleOp.tex)

\* C26: FreeTexture on a texture that is not in the list reports "Texture
\* not found" and leaves the list as it was, entries and counters.
C26_FreeUnknownTextureIsNoOp ==
  (simpleOp.op = "FreeTexture" /\ ~Listed(simpleOp.pre, simpleOp.tex))
  => /\ simpleOp.msg = "Texture not found"
     /\ m_vpSimpleTextures = simpleOp.pre

\* FreeTexture was called on a destroyed texture while another texture, with
\* two users, was in the list
C26_Witness ==
  /\ simpleOp.op = "FreeTexture" /\ simpleOp.tex \in simpleOp.deleted
  /\ ~Listed(simpleOp.pre, simpleOp.tex)
  /\ Len(simpleOp.pre) = 1 /\ simpleOp.pre[1].iAccessCounter = 2

\* C35: in every state of the simple-texture list each file name appears in
\* at most one entry and every access counter is at least 1; a load that
\* returned NULL has left the list as it was.
C35_SimpleListWellFormed ==
  /\ \A i, j \in 1..Len(m_vpSimpleTextures) :
        m_vpSimpleTextures[i].strFilename = m_vpSimpleTextures[j].strFilename
        => i = j
  /\ \A i \in 1..Len(m_vpSimpleTextures) :
        m_vpSimpleTextures[i].iAccessCounter >= 1
  /\ (simpleOp.op = "Load2DTextureFromFile" /\ simpleOp.ret = NULL)
     => m_vpSimpleTextures = simpleOp.pre

\* a load failed while the list held a texture in use by two loads, after
\* another texture had been deleted
C35_Witness ==
  /\ simpleOp.op = "Load2DTextureFromFile" /\ simpleOp.ret = NULL
  /\ Len(m_vpSimpleTextures) = 1
  /\ m_vpSimpleTextures[1].iAccessCounter = 2
  /\ simpleOp.deleted # {}

(***************************************************************************)
(* Properties of LuaCallback::exec                                         *)
(***************************************************************************)
\* the positions of the trace at which ev was called for who
Calls(ev, who) ==
  {i \in 1..Len(lua.trace) : lua.trace[i] = Event(ev, who)}

\* C27: a hook runs only after the bound function has run and before its
\* return value is pushed; when exec returns, every attached hook has run
\* once; no hook runs when the bound function has thrown; and for a hook
\* nothing but the hook itself is called: no provenance, no begin or end
\* command, no second round of hooks.
C27_HooksAfterRunBeforePush ==
  /\ \A h \in HookNames : \A i \in Calls("run", h) :
        /\ h \in lua.fun.hooks
        /\ \E j \in Calls("run", BoundFun) : j < i
        /\ \A j \in Calls("push", BoundFun) : i < j
  /\ lua.pc = "returned"
       => \A h \in lua.fun.hooks : Cardinality(Calls("run", h)) = 1
  /\ lua.bThrown
       => /\ \A h \in HookNames : Calls("run", h) = {}
          /\ lua.pc \in {"thrown", "unwound"}
  /\ \A h \in HookNames :
        /\ Cardinality(Calls("run", h)) <= 1
        /\ \A ev \in {"doProvenanceFromExec", "beginCommand", "endCommand",
                       "logExecFailure", "push"} : Calls(ev, h) = {}
  /\ \A ev \in {"doProvenanceFromExec", "beginCommand", "endCommand"} :
        Cardinality(Calls(ev, BoundFun)) <= 1

\* a value-returning function with three hooks has returned
C27_Witness ==
  /\ lua.pc = "returned"
  /\ lua.fun.hooks = {1, 2, 3} /\ ~lua.fun.bVoid
  /\ Len(lua.trace) = 8
  /\ lua.trace[8] = Event("push", BoundFun)
====
